---- MODULE Spec2Model ----
(***************************************************************************)
(* Model of the Parsec ingest path: the HTTP ingest handler, the bounded   *)
(* envelope channel, the batching worker pool, the retrying Kafka producer *)
(* with its writer pool, and the coordinator (Processor) that wires them   *)
(* and performs the graceful shutdown.                                     *)
(*                                                                         *)
(* Specifications:                                                         *)
(*   Spec          the whole pipeline driven by Processor.Run, a producer  *)
(*                 call of a worker taken as one step                      *)
(*   LiveSpec      the pipeline under the scheduler's fairness             *)
(*   ProducerSpec  a producer used directly by concurrent callers, each    *)
(*                 call followed step by step                              *)
(***************************************************************************)
EXTENDS Integers, Sequences, FiniteSets, TLC

\* ---------------------------------------------------------------- bounds
NumWorkers == 2
NumHandlers == 2
MaxEvents == 2
MaxTotalEvents == 2
\* events the clients send in the runs checked for termination
LiveEvents == 1
QueueCap == 1
BatchSize == 2
MaxRetries == 2
NumClients == 2
ClientPoolSize == 1
MaxClientCalls == 2
MaxCloseCalls == 2
\* width of the pool's unsigned counters (64 in the program)
CounterBits == 16
\* the calls that get equal events, and the Normalize calls of each
NumRuns == 2
MaxNormalize == 2

\* ------------------------------------------------------ program constants
RetryBackoff == 100

Workers == 1..NumWorkers
Clients == 1..NumClients
Handlers == 1..NumHandlers
\* the writers a producer can have: one per worker, or the direct callers' pool
WriterIds == 1..(IF NumWorkers > ClientPoolSize THEN NumWorkers ELSE ClientPoolSize)
Tenants == {"t1", "t2"}
\* the clients of one tenant
OneTenant == {"t1"}
\* what one input event turns out to be on its way through processEvents:
\*   badts   ParseTimestamp fails            (convertInput returns an error)
\*   invalid Validate fails after Normalize
\*   ok      valid event, json.Marshal of its envelope succeeds
\*   unser   valid event whose envelope json.Marshal rejects (a timestamp
\*           whose UTC year is outside [0,9999])
EventKinds == {"badts", "invalid", "ok", "unser"}

VARIABLES
    cpc,            \* Processor.Run / Processor.shutdown position
    ctxDone,        \* the context handed to Run is cancelled
    srvDone,        \* the ListenAndServe goroutine has returned
    statsDone,      \* the reportStats goroutine has returned
    runResult,      \* what Run returned: "none", "nil", "error"
    httpState,      \* "off", "serving", "bind_failed" (ListenAndServe returned
                    \* an error), "draining" (Shutdown running), "stopped"
    hpc,            \* per request: "idle", "processing", "responded", "panicked",
                    \* "denied" (answered by Auth)
    hKey,           \* per request: its X-API-Key header, "" when missing
    hN,             \* per request: number of input events
    hi,             \* per request: loop index i of processEvents (0-based)
    resp,           \* per request: the IngestResponse being built
    hBatch,         \* per request: the batch id generateBatchID returned
    batchCounter,   \* IngestHandler.batchCounter
    envelopeChan,   \* buffered content of the envelope channel
    chanClosed,     \* close(p.envelopeChan) was executed
    wpc,            \* per worker: "new", "select", "flush", "indiv", "stopped"
    batch,          \* per worker: the local batch slice
    wcont,          \* per worker: what follows the running flush: "loop", "exit"
    widx,           \* per worker: position of publishIndividually in the batch
    timerArmed,     \* per worker: the batch timer is running or its tick is pending
    lastFlush,      \* per worker: size of the batch of its last PublishBatch call
    processed,      \* Pool.processed
    failed,         \* Pool.failed
    poolCtxDone,    \* Pool.ctx is cancelled
    closed,         \* Producer.closed
    broker,         \* records the broker has received, in order
    messagesSent,   \* Producer.messagesSent
    messagesFailed, \* Producer.messagesFailed
    call,           \* per direct caller: its Publish / PublishBatch call
    pool,           \* Producer.pool: the writer handles not borrowed
    writersClosed,  \* handles on which writer.Close() was called
    nCalls,         \* calls the direct callers have started
    closeCalls,     \* calls of Producer.Close so far
    closeCount,     \* per writer: how often writer.Close() was called on it
    accepted,       \* history: envelopes whose send was accepted, in order
    taken,          \* history: envelopes received from the channel, in order
    handed,         \* history: envelopes passed to PublishBatch or Publish
    okEnvs,         \* history: envelopes of worker calls that returned nil
    queueAtClose,   \* history: channel content when the channel was closed
    faulted,        \* history: a write to the broker failed
    deadlineExpired,\* history: the 15 s worker deadline of shutdown elapsed
    httpTimedOut,   \* history: the 10 s deadline of httpServer.Shutdown elapsed
    budget,         \* input events the clients may still send
    health,         \* what the broker does with a write: "up", "down" or "any";
                    \* "panics": it takes every write, but a call of the
                    \* publisher can panic
    panicsRecovered,\* metrics.PanicsRecovered{worker}
    panics,         \* history: the workers in which a panic was raised
    attempts,       \* per envelope: WriteMessages attempts that carried it,
                    \* recorded for a broker that is down
    tenants,        \* the tenant ids the clients send
    exited,         \* main has returned: the process is gone
    poolSize,       \* cfg.Kafka.Producer.PoolSize: the workers the pool starts
    apiKeys,        \* the X-API-Key headers the clients send
    calls,          \* per envelope: Publish and PublishBatch calls of the
                    \* workers that carried it
    clock,          \* time.Now(), in seconds
    copy,           \* per run: its LogEvent
    normed,         \* per run: Normalize calls made on its event
    verdict,        \* per run: what Validate returned, "none" before the call,
                    \* "idle" without an event
    checked         \* per run: the event Validate saw and the clock it read

coordVars == <<cpc, ctxDone, srvDone, statsDone, runResult, httpState>>
handlerVars == <<hpc, hKey, hN, hi, resp, hBatch, batchCounter>>
chanVars == <<envelopeChan, chanClosed>>
timerVars == <<timerArmed, lastFlush>>
workerVars == <<wpc, batch, wcont, widx, timerVars, processed, failed, poolCtxDone>>
brokerVars == <<closed, broker, messagesSent, messagesFailed>>
closeVars == <<closeCalls, closeCount>>
clientVars == <<call, pool, writersClosed, nCalls, closeVars>>
histVars == <<accepted, taken, handed, okEnvs, queueAtClose, faulted, deadlineExpired,
              httpTimedOut>>
Min(a, b) == IF a < b THEN a ELSE b
eventVars == <<clock, copy, normed, verdict, checked>>
panicVars == <<panicsRecovered, panics>>
envVars == <<health, tenants, apiKeys, exited, poolSize, attempts, calls, panicVars, eventVars>>
pipeVars == <<coordVars, handlerVars, chanVars, workerVars, brokerVars, clientVars,
              histVars, budget, health, tenants, apiKeys, exited, poolSize, attempts, calls,
              panicVars>>
vars == <<coordVars, handlerVars, chanVars, workerVars, brokerVars, clientVars,
          histVars, budget, envVars>>

\* ---------------------------------------------------------------- helpers
Range(s) == {s[k] : k \in 1..Len(s)}

Pow2(n) == 2 ^ n

\* ------------------------------------------------------------------ strings
\* A string is kept as its runs of equal characters, <<[c, n], ...>>, no two
\* neighbouring runs with the same character: "aab" is <<[a,2], [b,1]>>.
Run(c, n) == [c |-> c, n |-> n]

RECURSIVE Canon(_)
Canon(s) ==
    IF Len(s) < 2 THEN s
    ELSE IF s[1].c = s[2].c
    THEN Canon(<<Run(s[1].c, s[1].n + s[2].n)>> \o SubSeq(s, 3, Len(s)))
    ELSE <<s[1]>> \o Canon(Tail(s))

\* the string with the characters cs, and the string of n times c
Lit(cs) == Canon([k \in DOMAIN cs |-> Run(cs[k], 1)])
Repeat(c, n) == IF n = 0 THEN <<>> ELSE <<Run(c, n)>>
Cat(s, t) == Canon(s \o t)

\* len(s)
RECURSIVE StrLen(_)
StrLen(s) == IF s = <<>> THEN 0 ELSE Head(s).n + StrLen(Tail(s))

LowerLetters == <<"a", "b", "c", "d", "e", "f", "g", "i", "k", "l", "n", "o",
                  "r", "t", "u", "w", "x", "y">>
UpperLetters == <<"A", "B", "C", "D", "E", "F", "G", "I", "K", "L", "N", "O",
                  "R", "T", "U", "W", "X", "Y">>
IsSpace(c) == c \in {" ", "\t"}
LowerOf(c) ==
    IF \E k \in DOMAIN UpperLetters : UpperLetters[k] = c
    THEN LowerLetters[CHOOSE k \in DOMAIN UpperLetters : UpperLetters[k] = c]
    ELSE c
UpperOf(c) ==
    IF \E k \in DOMAIN LowerLetters : LowerLetters[k] = c
    THEN UpperLetters[CHOOSE k \in DOMAIN LowerLetters : LowerLetters[k] = c]
    ELSE c

\* strings.ToLower, strings.ToUpper
ToLower(s) == Canon([k \in DOMAIN s |-> Run(LowerOf(s[k].c), s[k].n)])
ToUpper(s) == Canon([k \in DOMAIN s |-> Run(UpperOf(s[k].c), s[k].n)])

RECURSIVE TrimLeft(_)
TrimLeft(s) ==
    IF s # <<>> /\ IsSpace(Head(s).c) THEN TrimLeft(Tail(s)) ELSE s
RECURSIVE TrimRight(_)
TrimRight(s) ==
    IF s # <<>> /\ IsSpace(s[Len(s)].c)
    THEN TrimRight(SubSeq(s, 1, Len(s) - 1)) ELSE s

\* a trim that takes one character from each end
Shorter(r) == IF r.n = 1 THEN <<>> ELSE <<Run(r.c, r.n - 1)>>
TrimOneSpace(s) ==
    LET l == IF s # <<>> /\ IsSpace(Head(s).c)
             THEN Shorter(Head(s)) \o Tail(s) ELSE s
    IN IF l # <<>> /\ IsSpace(l[Len(l)].c)
       THEN SubSeq(l, 1, Len(l) - 1) \o Shorter(l[Len(l)]) ELSE l

\* strings.TrimSpace
TrimSpace(s) == TrimRight(TrimLeft(s))

\* ------------------------------------------------------------------- events
MaxMessageLength == 65536
MaxMetadataKeys == 50
\* time.Minute, in seconds
Minute == 60
\* the zero time.Time, and the clock when the event arrives (seconds)
ZeroTime == 0
Now0 == 1000

SeverityDebug == Lit(<<"D", "E", "B", "U", "G">>)
SeverityInfo == Lit(<<"I", "N", "F", "O">>)
SeverityWarning == Lit(<<"W", "A", "R", "N", "I", "N", "G">>)
SeverityError == Lit(<<"E", "R", "R", "O", "R">>)
SeverityCritical == Lit(<<"C", "R", "I", "T", "I", "C", "A", "L">>)

\* Severity.IsValid
IsValid(s) ==
    s \in {SeverityDebug, SeverityInfo, SeverityWarning, SeverityError,
           SeverityCritical}

\* a metadata map: nil, or the map kv from keys to values
NilMap == [nil |-> TRUE, kv |-> <<>>]
Map(kv) == [nil |-> FALSE, kv |-> kv]
\* len(e.Metadata)
MapLen(md) == IF md.nil THEN 0 ELSE Cardinality(DOMAIN md.kv)

\* Validate with the source checked before the severity
ValidateSourceFirst(e, now) ==
    IF e.id = <<>> THEN "EmptyId"
    ELSE IF e.tenantID = <<>> THEN "EmptyTenantId"
    ELSE IF e.timestamp = ZeroTime THEN "ZeroTimestamp"
    ELSE IF e.timestamp > now + Minute THEN "FutureTimestamp"
    ELSE IF e.source = <<>> THEN "EmptySource"
    ELSE IF ~IsValid(e.severity) THEN "InvalidSeverity"
    ELSE IF e.message = <<>> THEN "EmptyMessage"
    ELSE IF StrLen(e.message) > MaxMessageLength THEN "MessageTooLong"
    ELSE IF MapLen(e.metadata) > MaxMetadataKeys THEN "TooManyMetadata"
    ELSE "nil"

\* Validate that rejects timestamps before now + 1 min instead of after
ValidateBefore(e, now) ==
    IF e.id = <<>> THEN "EmptyId"
    ELSE IF e.tenantID = <<>> THEN "EmptyTenantId"
    ELSE IF e.timestamp = ZeroTime THEN "ZeroTimestamp"
    ELSE IF e.timestamp < now + Minute THEN "FutureTimestamp"
    ELSE IF ~IsValid(e.severity) THEN "InvalidSeverity"
    ELSE IF e.source = <<>> THEN "EmptySource"
    ELSE IF e.message = <<>> THEN "EmptyMessage"
    ELSE IF StrLen(e.message) > MaxMessageLength THEN "MessageTooLong"
    ELSE IF MapLen(e.metadata) > MaxMetadataKeys THEN "TooManyMetadata"
    ELSE "nil"

\* LogEvent.Validate with time.Now() = now: the error, or "nil"
Validate(e, now) ==
    IF e.id = <<>> THEN "EmptyId"
    ELSE IF e.tenantID = <<>> THEN "EmptyTenantId"
    ELSE IF e.timestamp = ZeroTime THEN "ZeroTimestamp"
    ELSE IF e.timestamp > now + Minute THEN "FutureTimestamp"
    ELSE IF ~IsValid(e.severity) THEN "InvalidSeverity"
    ELSE IF e.source = <<>> THEN "EmptySource"
    ELSE IF e.message = <<>> THEN "EmptyMessage"
    ELSE IF StrLen(e.message) > MaxMessageLength THEN "MessageTooLong"
    ELSE IF MapLen(e.metadata) > MaxMetadataKeys THEN "TooManyMetadata"
    ELSE "nil"

\* the key a metadata key is stored under
NormalKey(k) == ToLower(TrimSpace(k))

\* the maps the loop over e.Metadata can build: the entries are visited in
\* an order the runtime picks, and of the values whose keys become the same
\* key the one visited last stays
NormalizedMaps(md) ==
    IF md.nil THEN {md}
    ELSE LET entries == {<<NormalKey(k), TrimSpace(md.kv[k])>> : k \in DOMAIN md.kv}
             keys == {en[1] : en \in entries}
             cand(nk) == {en[2] : en \in {x \in entries : x[1] = nk}}
             open == {nk \in keys : Cardinality(cand(nk)) > 1}
             vals == UNION {cand(nk) : nk \in open}
         IN {Map([nk \in keys |->
                     IF nk \in open THEN g[nk] ELSE CHOOSE v \in cand(nk) : TRUE]) :
               g \in {f \in [open -> vals] : \A nk \in open : f[nk] \in cand(nk)}}

\* LogEvent.Normalize: the events it can leave in place of e
Normalize(e) ==
    {[id |-> TrimSpace(e.id),
      tenantID |-> TrimSpace(e.tenantID),
      timestamp |-> e.timestamp,
      severity |-> ToUpper(TrimSpace(e.severity)),
      source |-> ToLower(TrimSpace(e.source)),
      message |-> TrimSpace(e.message),
      metadata |-> md,
      traceID |-> TrimSpace(e.traceID),
      spanID |-> TrimSpace(e.spanID)] : md \in NormalizedMaps(e.metadata)}

\* ------------------------------------------------------------- envelopes
\* a WithBatch that leaves BatchIndex at its zero value
WithoutIndex(index) == 0

\* WithBatch: e.BatchIndex = index
WithIndex(index) == index

\* an envelope keyed by the ingest node instead of its tenant
KeyedByNode(tenant, ser, batchID, index) ==
    [tenant |-> tenant, partitionKey |-> "node", batchID |-> batchID,
     batchIndex |-> index, ser |-> ser]

\* models.NewEnvelope followed by WithBatch: the partition key is the
\* event's tenant id, the batch id and index come from the request.
NewEnvelope(tenant, ser, batchID, index) ==
    [tenant |-> tenant, partitionKey |-> tenant, batchID |-> batchID,
     batchIndex |-> WithIndex(index), ser |-> ser]

\* json.Marshal(envelope): the encoded fields of the envelope.
Marshal(e) == <<"json", e.tenant, e.batchID, e.batchIndex, e.partitionKey>>

\* the kafka.Message the producer builds for an envelope
Message(e) == [key |-> e.partitionKey, value |-> Marshal(e)]

EmptyResponse == [accepted |-> 0, rejected |-> 0, errors |-> <<>>,
                  success |-> TRUE, status |-> 0]

\* json.NewEncoder(w).Encode(response): the members of the JSON object, by
\* the tags of IngestResponse; errors is tagged omitempty and left out when
\* the list is empty
Body(r) ==
    LET always == [success |-> r.success, accepted |-> r.accepted,
                   rejected |-> r.rejected]
    IN IF r.errors = <<>> THEN always ELSE always @@ [errors |-> r.errors]

\* a status line that answers a partial success like a full one
StatusNoMulti(r) == IF r.rejected > 0 /\ r.accepted = 0 THEN 400 ELSE 200

\* ServeHTTP's choice of the status code from the response counters
StatusOf(r) ==
    IF r.rejected > 0 /\ r.accepted = 0 THEN 400
    ELSE IF r.rejected > 0 /\ r.accepted > 0 THEN 207
    ELSE 200

\* ------------------------------------------------------- ingest handler
\* the HTTP server accepts requests from ListenAndServe until Shutdown
Accepting == httpState = "serving"

\* the key Auth expects when API_KEY is not set, and a missing header
ExpectedKey == "test-api-key-123"
NoKey == ""
GoodKeys == {ExpectedKey}
Keys == {NoKey, "wrong-key", ExpectedKey}

\* a counter that is read and not incremented
LoadUint64(counter) == counter

\* generateBatchID: atomic.AddUint64(&h.batchCounter, 1), the new value
\* being the counter part of the batch id
AddUint64(counter) == counter + 1

\* an Auth that only asks for the header to be there
AuthPresent(apiKey) == apiKey # NoKey

\* Auth calls the next handler: the header is there and is the expected key
Auth(apiKey) == apiKey # NoKey /\ apiKey = ExpectedKey

\* A POST /ingest goes through Recovery, Logging and Auth.  Auth answers 401
\* and returns when the key is missing or wrong.  Otherwise ServeHTTP runs up
\* to the call of processEvents: a POST whose body parsed into n >= 1 events
\* gets a batch id from the atomic counter.
ReceiveRequest(h) ==
    /\ Accepting
    /\ hpc[h] = "idle"
    /\ \E apiKey \in apiKeys :
          /\ hKey' = [hKey EXCEPT ![h] = apiKey]
          /\ IF Auth(apiKey)
             THEN \E n \in 1..Min(MaxEvents, budget) :
                     /\ hN' = [hN EXCEPT ![h] = n]
                     /\ budget' = budget - n
                     /\ batchCounter' = AddUint64(batchCounter)
                     /\ hBatch' = [hBatch EXCEPT ![h] = AddUint64(batchCounter)]
                     /\ hi' = [hi EXCEPT ![h] = 0]
                     /\ resp' = [resp EXCEPT ![h] = EmptyResponse]
                     /\ hpc' = [hpc EXCEPT ![h] = "processing"]
             ELSE /\ resp' = [resp EXCEPT ![h].status = 401]
                  /\ hpc' = [hpc EXCEPT ![h] = "denied"]
                  /\ UNCHANGED <<hN, hi, hBatch, batchCounter, budget>>
    /\ UNCHANGED <<coordVars, chanVars, workerVars, brokerVars, clientVars, histVars,
                   envVars>>

\* a rejection that appends the error and leaves the counter alone
RejectUncounted(r, i, err) ==
    [r EXCEPT !.errors = Append(@, [index |-> i, error |-> err])]

\* the response after event i was rejected with the error text err
Reject(r, i, err) ==
    [r EXCEPT !.errors = Append(@, [index |-> i, error |-> err]),
              !.rejected = @ + 1]

\* an enqueue that the response does not count
AcceptUncounted(r) == r

\* the response after event i was enqueued
Accept(r) == [r EXCEPT !.accepted = @ + 1]

\* the select of processEvents finds room in the channel
CanSend(q) == Len(q) < QueueCap

\* the end of processEvents and the status line of ServeHTTP
Finish(r) == [r EXCEPT !.success = (r.rejected = 0), !.status = StatusOf(r)]

\* One iteration of the loop of processEvents on input i; after the last
\* iteration the response is completed and written.  A send on the closed
\* channel panics; the Recovery middleware turns the panic into a 500.
ProcessEvent(h) ==
    /\ hpc[h] = "processing"
    /\ \E kind \in EventKinds, t \in tenants :
        LET i == hi[h]
            e == NewEnvelope(t, kind = "ok", hBatch[h], i)
            last == i + 1 = hN[h]
            done(r) == IF last THEN Finish(r) ELSE r
            next == IF last THEN "responded" ELSE "processing"
        IN
        /\ hi' = [hi EXCEPT ![h] = i + 1]
        /\ IF kind = "badts"
           THEN /\ resp' = [resp EXCEPT ![h] = done(Reject(@, i, "conversion"))]
                /\ hpc' = [hpc EXCEPT ![h] = next]
                /\ UNCHANGED <<envelopeChan, accepted>>
           ELSE IF kind = "invalid"
           THEN /\ resp' = [resp EXCEPT ![h] = done(Reject(@, i, "validation"))]
                /\ hpc' = [hpc EXCEPT ![h] = next]
                /\ UNCHANGED <<envelopeChan, accepted>>
           ELSE IF chanClosed
           THEN /\ hpc' = [hpc EXCEPT ![h] = "panicked"]
                /\ resp' = [resp EXCEPT ![h].status = 500]
                /\ UNCHANGED <<envelopeChan, accepted>>
           ELSE IF CanSend(envelopeChan)
           THEN /\ envelopeChan' = Append(envelopeChan, e)
                /\ accepted' = Append(accepted, e)
                /\ resp' = [resp EXCEPT ![h] = done(Accept(@))]
                /\ hpc' = [hpc EXCEPT ![h] = next]
           ELSE /\ resp' = [resp EXCEPT ![h] = done(Reject(@, i, "queue_full"))]
                /\ hpc' = [hpc EXCEPT ![h] = next]
                /\ UNCHANGED <<envelopeChan, accepted>>
    /\ UNCHANGED <<hKey, hN, hBatch, batchCounter, chanClosed, coordVars, workerVars,
                   brokerVars, clientVars, taken, handed, okEnvs, queueAtClose,
                   faulted, deadlineExpired, httpTimedOut, budget, envVars>>

\* ------------------------------------------------- producer, seen by a call
\* the envelopes json.Marshal accepts, as kafka messages, in order
RECURSIVE Messages(_)
Messages(envs) ==
    IF envs = <<>> THEN <<>>
    ELSE IF Head(envs).ser THEN <<Message(Head(envs))>> \o Messages(Tail(envs))
    ELSE Messages(Tail(envs))

\* what the counters get from a call that wrote: messagesSent
Published(op, msgs) ==
    IF op = "batch" THEN Len(msgs) ELSE IF op = "single" THEN 1 ELSE 0

\* what messagesFailed gets from a call that failed after serialization
Unpublished(op, msgs) ==
    IF op = "batch" THEN Len(msgs) ELSE IF op = "single" THEN 1 ELSE 0

\* what json.Marshal failures add to messagesFailed in PublishBatch
Skipped(envs) == Len(envs) - Len(Messages(envs))

\* what a WriteMessages call can get from the broker: a broker that is up
\* takes every write in time, one that is down fails every write, at once
\* or after the deadline of the context
BrokerCan(what) ==
    CASE health \in {"up", "panics"} -> what = "ok"
      [] health = "down" -> what \in {"failed", "slow"}
      [] OTHER -> TRUE

\* the number of WriteMessages attempts a call can have made when it ends
\* with result res: one to MaxRetries + 1 for a success, MaxRetries + 1 when
\* the retries are exhausted, any number up to that when the context ended
\* the call, none when nothing was to be written
Writes(o) ==
    IF o.result = "ok" /\ o.records # <<>> THEN 1..(MaxRetries + 1)
    ELSE IF o.result = "failed" THEN {MaxRetries + 1}
    ELSE IF o.result = "ctxerr" THEN 0..(MaxRetries + 1)
    ELSE {0}

Outcome(res, recs, nsent, nfail) ==
    [result |-> res, records |-> recs, nsent |-> nsent, nfail |-> nfail]

\* Publish (op "single") and PublishBatch (op "batch") as one step of the
\* caller: every way the call can end for a producer that is closed or
\* not and a context that is done or not, with the records it wrote and
\* what it added to messagesSent and messagesFailed.  A handle is always
\* free for a worker, the pool holding one writer per worker.
CallOutcomes(op, envs, isClosed, ctxIsDone) ==
    LET msgs == Messages(envs) IN
    IF isClosed THEN {Outcome("closed", <<>>, 0, 0)}
    ELSE IF op = "single" /\ msgs = <<>> THEN {Outcome("serialize", <<>>, 0, 1)}
    ELSE IF op = "batch" /\ msgs = <<>> THEN {Outcome("ok", <<>>, 0, Skipped(envs))}
    ELSE LET skipped == IF op = "batch" THEN Skipped(envs) ELSE 0
             ok == Outcome("ok", msgs, Published(op, msgs), skipped)
             bad(res) == Outcome(res, <<>>, 0, skipped + Unpublished(op, msgs))
         IN {o \in {ok, bad("failed"), bad("ctxerr")} :
                \/ o.result = "ok" /\ BrokerCan("ok")
                \/ o.result = "failed" /\ BrokerCan("failed") /\ ~ctxIsDone
                \/ o.result = "ctxerr" /\ (ctxIsDone \/ BrokerCan("slow"))}

\* ---------------------------------------------------------------- workers
\* the unsigned counters of the pool wrap at their width
Modulus == 2 ^ CounterBits
\* a counter that is not raised
AddNothing(x, n) == x

\* atomic.Uint64.Add
AddU(x, n) == (x + n) % Modulus
\* a fallback that leaves a republished envelope in failed
KeepFailed(x) == x

\* failed.Add(^uint64(0)): add the all-ones word
SubOne(x) == (x + (Modulus - 1)) % Modulus

\* a worker that returns without wg.Done
ExitWithoutDone == "returned"

\* the worker leaves its loop: deferred wg.Done
ExitState == "stopped"

\* an exit that skips the flush
NoFlushOnExit(b) == FALSE

\* `if len(batch) > 0` before the flush of an exiting worker
FlushOnExit(b) == Len(b) > 0

\* a receive that leaves the envelope in the channel
RecvKeeps(q) == q

\* the channel after a receive
AfterRecv(q) == Tail(q)

\* a flush that waits for one envelope more than the batch size
BatchOverfull(b) == Len(b) > BatchSize

\* `if len(batch) >= p.batchSize` after the append
BatchFull(b) == Len(b) >= BatchSize

\* case <-p.ctx.Done(): flush what is buffered and return
WorkerCtxDone(w) ==
    /\ wpc[w] = "select"
    /\ poolCtxDone
    /\ IF FlushOnExit(batch[w])
       THEN /\ wpc' = [wpc EXCEPT ![w] = "flush"]
            /\ wcont' = [wcont EXCEPT ![w] = "exit"]
       ELSE /\ wpc' = [wpc EXCEPT ![w] = ExitState]
            /\ UNCHANGED wcont
    /\ UNCHANGED <<batch, widx, timerVars, processed, failed, poolCtxDone, coordVars,
                   handlerVars, chanVars, brokerVars, clientVars, histVars, budget, envVars>>

\* a batch that takes the new envelope at its front
AddInFront(b, e) == <<e>> \o b

\* `batch = append(batch, envelope)`
AddToBatch(b, e) == Append(b, e)

\* case envelope, ok := <-p.envelopeChan with ok: append, flush when full
WorkerRecv(w) ==
    /\ wpc[w] = "select"
    /\ envelopeChan # <<>>
    /\ LET e == Head(envelopeChan)
           b == AddToBatch(batch[w], e)
       IN
       /\ envelopeChan' = AfterRecv(envelopeChan)
       /\ taken' = Append(taken, e)
       /\ batch' = [batch EXCEPT ![w] = b]
       /\ IF BatchFull(b)
          THEN /\ wpc' = [wpc EXCEPT ![w] = "flush"]
               /\ wcont' = [wcont EXCEPT ![w] = "loop"]
          ELSE UNCHANGED <<wpc, wcont>>
    /\ UNCHANGED <<chanClosed, widx, timerVars, processed, failed, poolCtxDone, coordVars,
                   handlerVars, brokerVars, clientVars, accepted, handed,
                   okEnvs, queueAtClose, faulted, deadlineExpired, httpTimedOut,
                   budget, envVars>>

\* a receive that reports the close with envelopes still buffered
ClosedSeenAtOnce(q) == TRUE

\* a receive on the closed channel has ok false: nothing is buffered
ClosedSeen(q) == q = <<>>

\* case envelope, ok := <-p.envelopeChan with !ok: flush and return
WorkerChanClosed(w) ==
    /\ wpc[w] = "select"
    /\ chanClosed
    /\ ClosedSeen(envelopeChan)
    /\ IF FlushOnExit(batch[w])
       THEN /\ wpc' = [wpc EXCEPT ![w] = "flush"]
            /\ wcont' = [wcont EXCEPT ![w] = "exit"]
       ELSE /\ wpc' = [wpc EXCEPT ![w] = ExitState]
            /\ UNCHANGED wcont
    /\ UNCHANGED <<batch, widx, timerVars, processed, failed, poolCtxDone, coordVars,
                   handlerVars, chanVars, brokerVars, clientVars, histVars, budget, envVars>>

\* case <-timer.C: flush a non-empty batch, restart the timer
WorkerTimer(w) ==
    /\ wpc[w] = "select"
    /\ timerArmed[w]
    /\ Len(batch[w]) > 0
    /\ timerArmed' = [timerArmed EXCEPT ![w] = FALSE]
    /\ wpc' = [wpc EXCEPT ![w] = "flush"]
    /\ wcont' = [wcont EXCEPT ![w] = "loop"]
    /\ UNCHANGED <<batch, widx, lastFlush, processed, failed, poolCtxDone, coordVars,
                   handlerVars, chanVars, brokerVars, clientVars, histVars, budget, envVars>>

\* a reset that keeps what was flushed
ResetKeeps(b) == b

\* `batch = batch[:0]`
Reset(b) == <<>>

\* a flush after which the timer is left as it was
TimerLeft(armed) == armed

\* `timer.Reset(p.batchTimeout)` after a flush of the loop
TimerAfterFlush(armed) == TRUE

\* the flush is over: back to the loop with an empty batch and the timer
\* restarted, or return
Continue(w) ==
    /\ timerArmed' = [timerArmed EXCEPT ![w] =
                         IF wcont[w] = "loop" THEN TimerAfterFlush(@) ELSE @]
    /\ batch' = [batch EXCEPT ![w] = Reset(@)]
    /\ widx' = [widx EXCEPT ![w] = 0]
    /\ wpc' = [wpc EXCEPT ![w] = IF wcont[w] = "loop" THEN "select" ELSE ExitState]

\* the effect of a producer call of a worker on the producer and the broker
Publish(o, envs) ==
    /\ calls' = [e \in DOMAIN calls \cup Range(envs) |->
                    (IF e \in DOMAIN calls THEN calls[e] ELSE 0)
                    + (IF e \in Range(envs) THEN 1 ELSE 0)]
    /\ \E n \in (IF health = "down" THEN Writes(o) ELSE {0}) :
          attempts' = [e \in DOMAIN attempts \cup Range(envs) |->
                         (IF e \in DOMAIN attempts THEN attempts[e] ELSE 0)
                         + (IF e.ser /\ e \in Range(envs) THEN n ELSE 0)]
    /\ broker' = broker \o o.records
    /\ messagesSent' = messagesSent + o.nsent
    /\ messagesFailed' = messagesFailed + o.nfail
    /\ handed' = handed \cup Range(envs)
    /\ okEnvs' = IF o.result = "ok" THEN okEnvs \cup Range(envs) ELSE okEnvs
    /\ faulted' = (faulted \/ (o.result \in {"failed", "ctxerr"} /\ ~poolCtxDone))

\* a call of the publisher that panics instead of returning
Panics == IF health = "panics" THEN {Outcome("panic", <<>>, 0, 0)} ELSE {}

\* a recovery that does not count
Uncounted(n) == n

\* metrics.PanicsRecovered.WithLabelValues("worker").Inc()
Recovered(n) == n + 1

\* a panic unwinds worker w: the deferred function recovers and counts it,
\* then the deferred wg.Done runs
Recover(w) ==
    /\ panics' = panics \cup {w}
    /\ panicsRecovered' = Recovered(panicsRecovered)
    /\ wpc' = [wpc EXCEPT ![w] = ExitState]
    /\ UNCHANGED <<batch, widx, timerArmed, processed, failed>>

\* publishBatch: PublishBatch on the whole batch, then the counters; after
\* an error publishIndividually takes over
WorkerFlush(w) ==
    /\ wpc[w] = "flush"
    /\ batch[w] # <<>>
    /\ \E o \in CallOutcomes("batch", batch[w], closed, poolCtxDone) \cup Panics :
          /\ Publish(o, batch[w])
          /\ IF o.result = "panic"
             THEN Recover(w)
             ELSE IF o.result = "ok"
             THEN /\ processed' = AddU(processed, Len(batch[w]))
                  /\ Continue(w)
                  /\ UNCHANGED <<failed, panicVars>>
             ELSE /\ failed' = AddU(failed, Len(batch[w]))
                  /\ widx' = [widx EXCEPT ![w] = 1]
                  /\ wpc' = [wpc EXCEPT ![w] = "indiv"]
                  /\ UNCHANGED <<processed, batch, timerArmed, panicVars>>
    /\ lastFlush' = [lastFlush EXCEPT ![w] = Len(batch[w])]
    /\ UNCHANGED <<wcont, poolCtxDone, closed, coordVars, handlerVars, chanVars,
                   clientVars, accepted, taken, queueAtClose, deadlineExpired,
                   httpTimedOut, budget, health, tenants, apiKeys, exited, poolSize,
                   eventVars>>

\* one iteration of publishIndividually: Publish on one envelope of the
\* failed batch; a success is moved from failed to processed
WorkerIndiv(w) ==
    /\ wpc[w] = "indiv"
    /\ LET e == batch[w][widx[w]] IN
       \E o \in CallOutcomes("single", <<e>>, closed, poolCtxDone) \cup Panics :
          /\ Publish(o, <<e>>)
          /\ IF o.result = "panic"
             THEN Recover(w)
             ELSE /\ IF o.result = "ok"
                     THEN /\ failed' = SubOne(failed)
                          /\ processed' = AddU(processed, 1)
                     ELSE UNCHANGED <<failed, processed>>
                  /\ IF widx[w] < Len(batch[w])
                     THEN /\ widx' = [widx EXCEPT ![w] = @ + 1]
                          /\ UNCHANGED <<wpc, batch, timerArmed>>
                     ELSE Continue(w)
                  /\ UNCHANGED panicVars
    /\ UNCHANGED <<wcont, lastFlush, poolCtxDone, closed, coordVars, handlerVars,
                   chanVars, clientVars, accepted, taken, queueAtClose,
                   deadlineExpired, httpTimedOut, budget, health, tenants, apiKeys, exited, poolSize,
                   eventVars>>

WorkerStep(w) ==
    \/ WorkerCtxDone(w)
    \/ WorkerRecv(w)
    \/ WorkerChanClosed(w)
    \/ WorkerTimer(w)
    \/ WorkerFlush(w)
    \/ WorkerIndiv(w)

\* ------------------------------------------------------------ coordinator
Handles(n) == [k \in 1..n |-> k]

AllStopped == \A w \in Workers : wpc[w] = "stopped"

\* Pool.Start: one goroutine per configured worker; a worker beyond that
\* number does not exist and counts as one that has exited
Started == [w \in Workers |-> IF w <= poolSize THEN "select" ELSE "stopped"]

\* Run up to the wait for the signal: initProducer, initWorkerPool and
\* Start, initHTTPServer, the server and the stats goroutines.  A producer
\* that cannot be created makes Run return the error.  A ListenAndServe
\* that cannot bind its port returns in the server goroutine, which logs
\* the error and ends; Run waits for the signal all the same.
RunStart ==
    /\ cpc = "new"
    /\ \/ /\ cpc' = "serving"
          /\ pool' = Handles(NumWorkers)
          /\ wpc' = Started
          /\ httpState' = "serving"
          /\ UNCHANGED <<runResult, srvDone>>
       \/ /\ cpc' = "serving"
          /\ pool' = Handles(NumWorkers)
          /\ wpc' = Started
          /\ httpState' = "bind_failed"
          /\ srvDone' = TRUE
          /\ UNCHANGED runResult
       \/ /\ cpc' = "failed"
          /\ runResult' = "error"
          /\ UNCHANGED <<pool, wpc, httpState, srvDone>>
    /\ UNCHANGED <<ctxDone, statsDone, handlerVars, chanVars,
                   batch, wcont, widx, timerVars, processed, failed, poolCtxDone,
                   brokerVars, call, writersClosed, closeVars, nCalls, histVars, budget, envVars>>

\* the signal handler of main cancels the context of Run
CtxCancel ==
    /\ cpc = "serving"
    /\ ~ctxDone
    /\ ctxDone' = TRUE
    /\ UNCHANGED <<cpc, srvDone, statsDone, runResult, httpState, handlerVars,
                   chanVars, workerVars, brokerVars, clientVars, histVars, budget, envVars>>

\* reportStats returns on ctx.Done()
StatsExit ==
    /\ ctxDone
    /\ ~statsDone
    /\ statsDone' = TRUE
    /\ UNCHANGED <<cpc, ctxDone, srvDone, runResult, httpState, handlerVars,
                   chanVars, workerVars, brokerVars, clientVars, histVars, budget, envVars>>

\* shutdown step 1 begins: Shutdown closes the listener, ListenAndServe
\* returns ErrServerClosed and the server goroutine ends
HttpShutdownBegin ==
    /\ cpc = "serving"
    /\ ctxDone
    /\ cpc' = "http_shutdown"
    /\ httpState' = "draining"
    /\ srvDone' = TRUE
    /\ UNCHANGED <<ctxDone, statsDone, runResult, handlerVars,
                   chanVars, workerVars, brokerVars, clientVars, histVars, budget, envVars>>

InFlight == {h \in Handlers : hpc[h] = "processing"}

\* shutdown step 1 ends: every request in flight has completed, or the
\* 10 s deadline is reached with requests still in flight
HttpShutdownEnd ==
    /\ cpc = "http_shutdown"
    /\ cpc' = "close_chan"
    /\ httpState' = "stopped"
    /\ httpTimedOut' = (InFlight # {})
    /\ UNCHANGED <<ctxDone, srvDone, statsDone, runResult, handlerVars,
                   chanVars, workerVars, brokerVars, clientVars, accepted, taken,
                   handed, okEnvs, queueAtClose, faulted, deadlineExpired, budget, envVars>>

\* shutdown step 2: close(p.envelopeChan)
CloseChan ==
    /\ cpc = "close_chan"
    /\ chanClosed' = TRUE
    /\ queueAtClose' = Range(envelopeChan)
    /\ cpc' = "stop_pool"
    /\ UNCHANGED <<ctxDone, srvDone, statsDone, runResult, httpState, handlerVars,
                   envelopeChan, workerVars, brokerVars, clientVars, accepted, taken,
                   handed, okEnvs, faulted, deadlineExpired, httpTimedOut, budget, envVars>>

\* a shutdown that does not wait for the workers
NoWait == "close_producer"

\* where shutdown goes after it started the goroutine that calls Stop
AfterStop == "wait_workers"

\* shutdown step 3 begins: the goroutine runs workerPool.Stop, whose
\* first statement cancels Pool.ctx
StopPool ==
    /\ cpc = "stop_pool"
    /\ poolCtxDone' = TRUE
    /\ cpc' = AfterStop
    /\ UNCHANGED <<ctxDone, srvDone, statsDone, runResult, httpState, handlerVars,
                   chanVars, wpc, batch, wcont, widx, timerVars, processed, failed,
                   brokerVars, clientVars, histVars, budget, envVars>>

\* shutdown step 3 ends: done is closed after wg.Wait, or 15 s elapsed
WaitWorkers ==
    /\ cpc = "wait_workers"
    /\ cpc' = "close_producer"
    /\ deadlineExpired' = ~AllStopped
    /\ UNCHANGED <<ctxDone, srvDone, statsDone, runResult, httpState, handlerVars,
                   chanVars, workerVars, brokerVars, clientVars, accepted, taken,
                   handed, okEnvs, queueAtClose, faulted, httpTimedOut, budget, envVars>>

\* a Close that closes the writers whatever Swap returned
SwapIgnored == FALSE

\* `if p.closed.Swap(true)`: the producer was closed before this call
AlreadyClosed == closed

\* p.writers: every writer of the producer, in the pool or borrowed
Writers == (Range(pool) \cup {call[c].writer : c \in Clients}) \ {0}

\* Producer.Close: the first call sets closed and closes every writer,
\* a later call returns nil at once
CloseEffect ==
    /\ closed' = TRUE
    /\ closeCalls' = closeCalls + 1
    /\ writersClosed' = IF closed THEN writersClosed ELSE Writers
    /\ closeCount' =
          IF AlreadyClosed THEN closeCount
          ELSE [k \in WriterIds |->
                   IF k \in Writers THEN closeCount[k] + 1 ELSE closeCount[k]]

\* shutdown step 4: p.producer.Close()
CloseProducer ==
    /\ cpc = "close_producer"
    /\ CloseEffect
    /\ cpc' = "wg_wait"
    /\ UNCHANGED <<ctxDone, srvDone, statsDone, runResult, httpState, handlerVars,
                   chanVars, workerVars, broker, messagesSent, messagesFailed,
                   call, pool, nCalls, histVars, budget, envVars>>

\* shutdown step 5: p.wg.Wait() for the server and the stats goroutines;
\* shutdown returns nil and the deferred calls of Run begin
WgWait ==
    /\ cpc = "wg_wait"
    /\ srvDone
    /\ statsDone
    /\ cpc' = "deferred_stop"
    /\ UNCHANGED <<ctxDone, srvDone, statsDone, runResult, httpState, handlerVars,
                   chanVars, workerVars, brokerVars, clientVars, histVars, budget, envVars>>

\* the deferred workerPool.Stop() waits for every worker, the deferred
\* producer.Close() is the second Close of the producer, and Run returns nil
RunReturn ==
    /\ cpc = "deferred_stop"
    /\ AllStopped
    /\ cpc' = "done"
    /\ runResult' = "nil"
    /\ CloseEffect
    /\ UNCHANGED <<ctxDone, srvDone, statsDone, httpState, handlerVars,
                   chanVars, workerVars, broker, messagesSent, messagesFailed,
                   call, pool, nCalls, histVars, budget, envVars>>

Coordinator ==
    \/ RunStart
    \/ CtxCancel
    \/ StatsExit
    \/ HttpShutdownBegin
    \/ HttpShutdownEnd
    \/ CloseChan
    \/ StopPool
    \/ WaitWorkers
    \/ CloseProducer
    \/ WgWait
    \/ RunReturn

\* ---------------------------------------------------------- specification
IdleCall == [pc |-> "idle", op |-> "none", envs |-> <<>>, msgs |-> <<>>,
             attempt |-> 0, backoff |-> 0, waits |-> <<>>, writes |-> 0,
             wrote |-> 0, lastErr |-> "none", writer |-> 0, ctx |-> FALSE,
             result |-> "none", via |-> "none", afterClose |-> FALSE,
             status |-> 0]

\* ----------------------------------------------------- events: the inputs
\* the field values of the events received: with and without surrounding
\* white space, in both cases, at the limits of every rule of Validate
InIds == {Lit(<<" ">>), Lit(<<" ", "a", " ">>)}
InTenants == {<<>>, Lit(<<"t", " ">>)}
InTimestamps == {ZeroTime, Now0 - 10, Now0 + Minute, Now0 + Minute + 1}
InSeverities == {Lit(<<" ", "i", "n", "f", "o">>), Lit(<<"b", "u", "g">>)}
InSources == {<<>>, Lit(<<" ", " ", "A", "b", " ">>)}
InMessages ==
    {Lit(<<" ">>), Lit(<<" ", "a", " ">>),
     Repeat("x", MaxMessageLength), Repeat("x", MaxMessageLength + 1),
     Cat(Lit(<<" ">>), Repeat("x", MaxMessageLength))}
\* n keys k, kk, kkk, ... with empty values
ManyKeys(n) == [k \in {Repeat("k", j) : j \in 1..n} |-> <<>>]
InMetadata ==
    {NilMap,
     Map(Lit(<<" ", "A">>) :> Lit(<<"x", " ">>) @@ Lit(<<"a">>) :> Lit(<<"y">>)),
     Map(ManyKeys(MaxMetadataKeys)),
     Map(ManyKeys(MaxMetadataKeys + 1)),
     Map(ManyKeys(MaxMetadataKeys) @@ Lit(<<"K">>) :> <<>>)}
InEvents ==
    [id : InIds, tenantID : InTenants, timestamp : InTimestamps,
     severity : InSeverities, source : InSources, message : InMessages,
     metadata : InMetadata, traceID : {Lit(<<" ", "a">>)}, spanID : {<<>>}]

\* the clock readings of the calls
Clocks == {Now0, Now0 + 1}

\* ------------------------------------------------- events: the operations
\* Two runs (two calls, two processes) get equal events and apply Normalize
\* and Validate to their own copy, each at the moment it reads the clock.
Runs == 1..NumRuns

\* the event of a run that has none
NoEvent ==
    [id |-> <<>>, tenantID |-> <<>>, timestamp |-> ZeroTime, severity |-> <<>>,
     source |-> <<>>, message |-> <<>>, metadata |-> NilMap, traceID |-> <<>>,
     spanID |-> <<>>]

\* no event is under way
NoEvents ==
    /\ clock = Now0
    /\ copy = [r \in Runs |-> NoEvent]
    /\ normed = [r \in Runs |-> 0]
    /\ verdict = [r \in Runs |-> "idle"]
    /\ checked = [r \in Runs |-> [e |-> NoEvent, at |-> Now0]]

\* e.Normalize() in run r
DoNormalize(r) ==
    /\ verdict[r] = "none"
    /\ normed[r] < MaxNormalize
    /\ \E n \in Normalize(copy[r]) : copy' = [copy EXCEPT ![r] = n]
    /\ normed' = [normed EXCEPT ![r] = @ + 1]
    /\ UNCHANGED <<clock, verdict, checked, pipeVars>>

\* e.Validate() in run r
DoValidate(r) ==
    /\ verdict[r] = "none"
    /\ verdict' = [verdict EXCEPT ![r] = Validate(copy[r], clock)]
    /\ checked' = [checked EXCEPT ![r] = [e |-> copy[r], at |-> clock]]
    /\ UNCHANGED <<clock, copy, normed, pipeVars>>

\* time passes, or the next call is in a process with another clock
Tick ==
    /\ \E r \in Runs : verdict[r] # "idle"
    /\ \E t \in Clocks \ {clock} : clock' = t
    /\ UNCHANGED <<copy, normed, verdict, checked, pipeVars>>

\* the state after Processor.New, nothing running yet, with the clients
\* about to send up to n events
Start(n, mode, ts, ks, nw) ==
    /\ cpc = "new"
    /\ ctxDone = FALSE
    /\ srvDone = FALSE
    /\ statsDone = FALSE
    /\ runResult = "none"
    /\ httpState = "off"
    /\ hpc = [h \in Handlers |-> "idle"]
    /\ hKey = [h \in Handlers |-> NoKey]
    /\ hN = [h \in Handlers |-> 0]
    /\ hi = [h \in Handlers |-> 0]
    /\ resp = [h \in Handlers |-> EmptyResponse]
    /\ hBatch = [h \in Handlers |-> 0]
    /\ batchCounter = 0
    /\ envelopeChan = <<>>
    /\ chanClosed = FALSE
    /\ wpc = [w \in Workers |-> "new"]
    /\ batch = [w \in Workers |-> <<>>]
    /\ wcont = [w \in Workers |-> "loop"]
    /\ widx = [w \in Workers |-> 0]
    /\ timerArmed = [w \in Workers |-> TRUE]
    /\ lastFlush = [w \in Workers |-> 0]
    /\ processed = 0
    /\ failed = 0
    /\ poolCtxDone = FALSE
    /\ closed = FALSE
    /\ broker = <<>>
    /\ messagesSent = 0
    /\ messagesFailed = 0
    /\ call = [c \in Clients |-> IdleCall]
    /\ pool = <<>>
    /\ writersClosed = {}
    /\ nCalls = 0
    /\ closeCalls = 0
    /\ closeCount = [k \in WriterIds |-> 0]
    /\ accepted = <<>>
    /\ taken = <<>>
    /\ handed = {}
    /\ okEnvs = {}
    /\ queueAtClose = {}
    /\ faulted = FALSE
    /\ deadlineExpired = FALSE
    /\ httpTimedOut = FALSE
    /\ budget = n
    /\ health = mode
    /\ tenants = ts
    /\ apiKeys = ks
    /\ exited = FALSE
    /\ poolSize = nw
    /\ panicsRecovered = 0
    /\ panics = {}
    /\ attempts = [e \in {} |-> 0]
    /\ calls = [e \in {} |-> 0]

Init == Start(MaxTotalEvents, "any", OneTenant, GoodKeys, NumWorkers) /\ NoEvents

Next ==
    \/ Coordinator
    \/ \E h \in Handlers : ReceiveRequest(h) \/ ProcessEvent(h)
    \/ \E w \in Workers : WorkerStep(w)

Spec == Init /\ [][Next]_vars

\* ------------------------------------------- producer, step by step
\* The producer used directly by concurrent callers, each call followed
\* through the closed check, the borrow of a writer, the retry loop and the
\* return of the writer.

\* a caller enters Publish (op "single"), PublishBatch (op "batch") or
\* HealthCheck (op "health")
NewCall(op, envs) == [IdleCall EXCEPT !.pc = "start", !.op = op, !.envs = envs]

\* the context the caller passed is done
CtxDone(c) == call[c].ctx

\* a health handler that answers 200 whatever HealthCheck returned
AlwaysHealthy(res) == 200

\* healthHandler: 503 for an error of HealthCheck, 200 otherwise
HealthStatus(res) == IF res # "ok" THEN 503 ELSE 200

\* the status GET /health answers for a HealthCheck call that returned res
Answer(op, res) == IF op = "health" THEN HealthStatus(res) ELSE 0

\* a call ends before it borrowed a handle
EndEarly(c, res, nfail) ==
    /\ call' = [call EXCEPT ![c].pc = "done", ![c].result = res,
                            ![c].via = call[c].pc,
                            ![c].status = Answer(call[c].op, res)]
    /\ messagesFailed' = messagesFailed + nfail
    /\ UNCHANGED <<pool, messagesSent>>

\* what a call does with the writer it borrowed: the retry loop, or
\* writer.Stats() for HealthCheck
AfterBorrow(op) == IF op = "health" THEN "stats" ELSE "write"

\* the callers parked in the select of the borrow, still to be woken
Parked == {p \in Clients : call[p].pc = "parked" /\ ~CtxDone(p)}

\* a return of the writer that only the success path makes
GivesBackOnSuccess(res) == res = "ok"

\* `defer func() { p.pool <- writer }()`: the writer goes back however
\* the call ends
GivesBack(res) == TRUE

\* a call ends holding a handle: the counters advance and the deferred
\* send gives the handle back, straight to a parked receiver if there is one
EndCall(c, k, res) ==
    LET fin == [k EXCEPT !.pc = "done", !.result = res, !.writer = 0,
                         !.via = k.pc, !.status = Answer(k.op, res)]
    IN
    /\ IF res = "ok"
       THEN /\ messagesSent' = messagesSent + Published(k.op, k.msgs)
            /\ UNCHANGED messagesFailed
       ELSE /\ messagesFailed' = messagesFailed + Unpublished(k.op, k.msgs)
            /\ UNCHANGED messagesSent
    /\ IF ~GivesBack(res)
       THEN /\ pool' = pool
            /\ call' = [call EXCEPT ![c] = fin]
       ELSE IF Parked = {}
       THEN /\ pool' = Append(pool, k.writer)
            /\ call' = [call EXCEPT ![c] = fin]
       ELSE /\ pool' = pool
            /\ \E p \in Parked :
                  call' = [call EXCEPT ![c] = fin,
                                       ![p] = [@ EXCEPT !.pc = AfterBorrow(call[p].op),
                                                        !.writer = k.writer,
                                                        !.backoff = RetryBackoff]]

\* Publish / PublishBatch up to the borrow: the closed check and the
\* serialization of the envelopes
PStart(c) ==
    /\ call[c].pc = "start"
    /\ LET k == call[c]
           msgs == Messages(k.envs)
       IN
       IF closed
       THEN EndEarly(c, "closed", 0)
       ELSE IF k.op = "single" /\ msgs = <<>>
       THEN EndEarly(c, "serialize", 1)
       ELSE IF k.op = "batch" /\ msgs = <<>>
       THEN EndEarly(c, "ok", Skipped(k.envs))
       ELSE /\ call' = [call EXCEPT ![c].pc = "borrow", ![c].msgs = msgs]
            /\ messagesFailed' = messagesFailed +
                                 (IF k.op = "batch" THEN Skipped(k.envs) ELSE 0)
            /\ UNCHANGED <<pool, messagesSent>>
    /\ UNCHANGED <<closed, broker, writersClosed, closeVars, nCalls, coordVars, handlerVars,
                   chanVars, workerVars, histVars, budget, envVars>>

\* the select that borrows a writer: a handle that is ready, or the done
\* context, and otherwise the caller parks on both
PBorrow(c) ==
    /\ call[c].pc = "borrow"
    /\ \/ /\ pool # <<>>
          /\ pool' = Tail(pool)
          /\ call' = [call EXCEPT ![c].pc = AfterBorrow(call[c].op),
                                  ![c].writer = Head(pool),
                                  ![c].backoff = RetryBackoff]
          /\ UNCHANGED <<messagesSent, messagesFailed>>
       \/ /\ CtxDone(c)
          /\ EndEarly(c, "ctxerr", Unpublished(call[c].op, call[c].msgs))
       \/ /\ pool = <<>>
          /\ ~CtxDone(c)
          /\ call' = [call EXCEPT ![c].pc = "parked"]
          /\ UNCHANGED <<pool, messagesSent, messagesFailed>>
    /\ UNCHANGED <<closed, broker, writersClosed, closeVars, nCalls, coordVars, handlerVars,
                   chanVars, workerVars, histVars, budget, envVars>>

\* a caller parked in the borrow is woken by its context
PParkedCancel(c) ==
    /\ call[c].pc = "parked"
    /\ CtxDone(c)
    /\ EndEarly(c, "ctxerr", Unpublished(call[c].op, call[c].msgs))
    /\ UNCHANGED <<closed, broker, writersClosed, closeVars, nCalls, coordVars, handlerVars,
                   chanVars, workerVars, histVars, budget, envVars>>

\* HealthCheck with its writer: writer.Stats(), which writes nothing, and
\* the deferred return of the writer
PHealth(c) ==
    /\ call[c].pc = "stats"
    /\ EndCall(c, call[c], "ok")
    /\ UNCHANGED <<closed, broker, writersClosed, closeVars, nCalls, coordVars, handlerVars,
                   chanVars, workerVars, histVars, budget, envVars>>

\* a loop that runs one attempt too many
RetryOnceMore(a) == a <= MaxRetries

\* the loop condition of publishWithRetry / publishBatchWithRetry after the
\* failed attempt number a (0-based): another attempt follows
RetryAllowed(a) == a + 1 <= MaxRetries

\* errors.Is(err, context.Canceled) || errors.Is(err, context.DeadlineExceeded)
NonRetryable(outcome) == outcome = "ctxerr"

\* the outcomes writer.WriteMessages can have for the call: a closed writer
\* refuses, a done context may still see the write through
WriteOutcomes(c) ==
    IF call[c].writer \in writersClosed THEN {"err"}
    ELSE IF CtxDone(c) THEN {"ok", "ctxerr"}
    ELSE {"ok", "err", "ctxerr"}

\* one attempt of the retry loop: writer.WriteMessages and what follows it
PWrite(c) ==
    /\ call[c].pc = "write"
    /\ \E outcome \in WriteOutcomes(c) :
        LET k == [call[c] EXCEPT !.writes = @ + 1,
                                 !.wrote = IF outcome = "ok" THEN @ + 1 ELSE @,
                                 !.lastErr = IF outcome = "ok" THEN @ ELSE outcome]
        IN
        IF outcome = "ok"
        THEN /\ broker' = broker \o k.msgs
             /\ EndCall(c, k, "ok")
        ELSE /\ UNCHANGED broker
             /\ IF NonRetryable(outcome)
                THEN EndCall(c, k, "ctxerr")
                ELSE IF RetryAllowed(k.attempt)
                THEN /\ call' = [call EXCEPT ![c] = [k EXCEPT !.pc = "backoff",
                                                        !.attempt = @ + 1]]
                     /\ UNCHANGED <<pool, messagesSent, messagesFailed>>
                ELSE EndCall(c, k, "failed")
    /\ UNCHANGED <<closed, writersClosed, closeVars, nCalls, coordVars, handlerVars,
                   chanVars, workerVars, histVars, budget, envVars>>

\* a wait that does not look at the context
BackoffIgnoresCtx(c) == FALSE

\* the select of the wait before a retry sees the done context
BackoffCancelled(c) == CtxDone(c)

\* the wait before the next attempt: time.After(backoff) against ctx.Done()
PBackoff(c) ==
    /\ call[c].pc = "backoff"
    /\ IF BackoffCancelled(c)
       THEN EndCall(c, call[c], "ctxerr")
       ELSE /\ call' = [call EXCEPT ![c].pc = "write",
                                    ![c].waits = Append(@, call[c].backoff),
                                    ![c].backoff = @ * 2]
            /\ UNCHANGED <<pool, messagesSent, messagesFailed>>
    /\ UNCHANGED <<closed, broker, writersClosed, closeVars, nCalls, coordVars, handlerVars,
                   chanVars, workerVars, histVars, budget, envVars>>

\* the caller cancels the context of its call, or its deadline expires
CtxExpire(c) ==
    /\ call[c].pc \in {"borrow", "parked", "write", "backoff"}
    /\ ~call[c].ctx
    /\ call' = [call EXCEPT ![c].ctx = TRUE]
    /\ UNCHANGED <<pool, writersClosed, closeVars, nCalls, brokerVars, coordVars, handlerVars,
                   chanVars, workerVars, histVars, budget, envVars>>

\* the envelopes the direct callers publish
ClientEnvs == {NewEnvelope(t, ser, 0, 0) : t \in tenants, ser \in BOOLEAN}

ClientRequests ==
    {[op |-> "single", envs |-> <<e>>] : e \in ClientEnvs}
    \cup {[op |-> "batch", envs |-> <<e>>] : e \in ClientEnvs}
    \cup {[op |-> "batch", envs |-> <<e1, e2>>] : e1 \in ClientEnvs, e2 \in ClientEnvs}
    \cup {[op |-> "health", envs |-> <<>>]}

\* a caller starts a call with a fresh context
ClientCall(c) ==
    /\ call[c].pc \in {"idle", "done"}
    /\ nCalls < MaxClientCalls
    /\ nCalls' = nCalls + 1
    /\ \E r \in ClientRequests :
          call' = [call EXCEPT ![c] = [NewCall(r.op, r.envs) EXCEPT
                                          !.afterClose = closed]]
    /\ UNCHANGED <<pool, writersClosed, closeVars, brokerVars, coordVars, handlerVars,
                   chanVars, workerVars, histVars, budget, envVars>>

\* the owner of the producer calls Close
ProducerClose ==
    /\ closeCalls < MaxCloseCalls
    /\ CloseEffect
    /\ UNCHANGED <<broker, messagesSent, messagesFailed, call, pool, nCalls,
                   coordVars, handlerVars, chanVars, workerVars, histVars, budget, envVars>>

\* the state after NewProducer with ClientPoolSize writers
ProducerInit ==
    /\ cpc = "new"
    /\ ctxDone = FALSE
    /\ srvDone = FALSE
    /\ statsDone = FALSE
    /\ runResult = "none"
    /\ httpState = "off"
    /\ hpc = [h \in Handlers |-> "idle"]
    /\ hKey = [h \in Handlers |-> NoKey]
    /\ hN = [h \in Handlers |-> 0]
    /\ hi = [h \in Handlers |-> 0]
    /\ resp = [h \in Handlers |-> EmptyResponse]
    /\ hBatch = [h \in Handlers |-> 0]
    /\ batchCounter = 0
    /\ envelopeChan = <<>>
    /\ chanClosed = FALSE
    /\ wpc = [w \in Workers |-> "new"]
    /\ batch = [w \in Workers |-> <<>>]
    /\ wcont = [w \in Workers |-> "loop"]
    /\ widx = [w \in Workers |-> 0]
    /\ timerArmed = [w \in Workers |-> TRUE]
    /\ lastFlush = [w \in Workers |-> 0]
    /\ processed = 0
    /\ failed = 0
    /\ poolCtxDone = FALSE
    /\ closed = FALSE
    /\ broker = <<>>
    /\ messagesSent = 0
    /\ messagesFailed = 0
    /\ call = [c \in Clients |-> IdleCall]
    /\ pool = Handles(ClientPoolSize)
    /\ writersClosed = {}
    /\ nCalls = 0
    /\ closeCalls = 0
    /\ closeCount = [k \in WriterIds |-> 0]
    /\ accepted = <<>>
    /\ taken = <<>>
    /\ handed = {}
    /\ okEnvs = {}
    /\ queueAtClose = {}
    /\ faulted = FALSE
    /\ deadlineExpired = FALSE
    /\ httpTimedOut = FALSE
    /\ budget = 0
    /\ health = "any"
    /\ tenants = OneTenant
    /\ apiKeys = GoodKeys
    /\ exited = FALSE
    /\ poolSize = NumWorkers
    /\ panicsRecovered = 0
    /\ panics = {}
    /\ attempts = [e \in {} |-> 0]
    /\ calls = [e \in {} |-> 0]
    /\ NoEvents

ProducerNext ==
    \/ \E c \in Clients :
          \/ ClientCall(c)
          \/ PStart(c)
          \/ PBorrow(c)
          \/ PParkedCancel(c)
          \/ PWrite(c)
          \/ PBackoff(c)
          \/ PHealth(c)
          \/ CtxExpire(c)
    \/ ProducerClose

ProducerSpec == ProducerInit /\ [][ProducerNext]_vars

\* the shutdown steps of Run after the signal, and the goroutines they wait for
ShutdownStep ==
    \/ HttpShutdownBegin
    \/ HttpShutdownEnd
    \/ CloseChan
    \/ StopPool
    \/ WaitWorkers
    \/ CloseProducer
    \/ WgWait
    \/ RunReturn

\* The Go scheduler runs every goroutine that can take a step: the
\* coordinator through its shutdown, the stats goroutine, every worker.
Fairness ==
    /\ WF_vars(ShutdownStep)
    /\ WF_vars(StatsExit)
    /\ \A w \in Workers : WF_vars(WorkerStep(w))

LiveInit == Start(LiveEvents, "any", OneTenant, GoodKeys, NumWorkers) /\ NoEvents

LiveSpec == LiveInit /\ [][Next]_vars /\ Fairness

\* the same pipeline with nothing assumed on the pace of the coordinator:
\* the workers run, and the cancel of Pool.ctx may come late or never
DrainSpec == LiveInit /\ [][Next]_vars /\ \A w \in Workers : WF_vars(WorkerStep(w))

\* the pipeline in front of a broker that takes every write
UpInit == Start(MaxTotalEvents, "up", OneTenant, GoodKeys, NumWorkers) /\ NoEvents

UpSpec == UpInit /\ [][Next]_vars /\ Fairness

\* the pipeline with clients of every tenant
TenantInit == Start(MaxTotalEvents, "any", Tenants, GoodKeys, NumWorkers) /\ NoEvents

TenantSpec == TenantInit /\ [][Next]_vars

\* Normalize and Validate on the events received, the pipeline idle
EventInit ==
    /\ Start(0, "any", OneTenant, GoodKeys, NumWorkers)
    /\ clock = Now0
    /\ \E e \in InEvents : copy = [r \in Runs |-> e]
    /\ normed = [r \in Runs |-> 0]
    /\ verdict = [r \in Runs |-> "none"]
    /\ checked = [r \in Runs |-> [e |-> NoEvent, at |-> Now0]]

EventNext ==
    \/ \E r \in Runs : DoNormalize(r)
    \/ \E r \in Runs : DoValidate(r)
    \/ Tick

EventSpec == EventInit /\ [][EventNext]_vars

\* the pipeline in front of a broker that fails every write
DownInit == Start(LiveEvents, "down", OneTenant, GoodKeys, NumWorkers) /\ NoEvents

\* main returns once it has cancelled the context, on a signal or on an
\* error of Run, without waiting for the goroutine that runs Run; with
\* main the process and all its goroutines end
MainReturn ==
    /\ ctxDone \/ runResult = "error"
    /\ ~exited
    /\ exited' = TRUE
    /\ UNCHANGED <<coordVars, handlerVars, chanVars, workerVars, brokerVars,
                   clientVars, histVars, budget, health, tenants, apiKeys,
                   poolSize, attempts, calls, panicVars, eventVars>>

\* the process: the pipeline for as long as main has not returned
MainNext ==
    \/ ~exited /\ Next
    \/ MainReturn

MainSpec == LiveInit /\ [][MainNext]_vars

\* the pipeline with a pool of one worker in front of a broker that takes
\* every write
OneWorkerInit == Start(MaxTotalEvents, "up", OneTenant, GoodKeys, 1) /\ NoEvents
OneWorkerSpec == OneWorkerInit /\ [][Next]_vars

\* the pipeline with a publisher whose calls can panic
PanicInit == Start(MaxTotalEvents, "panics", OneTenant, GoodKeys, NumWorkers) /\ NoEvents
PanicSpec == PanicInit /\ [][Next]_vars

\* the pipeline with clients that send no key, a wrong key or the right key
AuthInit == Start(LiveEvents, "any", OneTenant, Keys, NumWorkers) /\ NoEvents
AuthSpec == AuthInit /\ [][Next]_vars

DownSpec == DownInit /\ [][Next]_vars

\* ================================================================ claims
Count(e, s) == Cardinality({k \in DOMAIN s : s[k] = e})

\* C1: when Run has returned from a shutdown during which no broker write
\* failed and the 15 s worker deadline did not expire, the channel is empty
\* and every serializable envelope that was in it when it was closed has
\* been handed to the producer and has its record at the broker.
DrainOnShutdown ==
    (cpc = "done" /\ ~faulted /\ ~deadlineExpired) =>
        /\ envelopeChan = <<>>
        /\ \A e \in queueAtClose :
              e.ser => (e \in handed /\ Message(e) \in Range(broker))

\* C2: no envelope is received from the channel twice, what was received
\* plus what is buffered is what was accepted, and once the channel is
\* empty the multiset received equals the multiset accepted.
QueueSafety ==
    /\ \A e \in Range(taken) : Count(e, taken) = 1
    /\ accepted = taken \o envelopeChan
    /\ envelopeChan = <<>> =>
          \A e \in Range(accepted) \cup Range(taken) :
              Count(e, taken) = Count(e, accepted)

\* C2 witness: both channel ends were used concurrently and the channel
\* is drained: two envelopes accepted, each worker holding one of them.
QueueSafetyWitness ==
    /\ envelopeChan = <<>>
    /\ Len(accepted) >= 2
    /\ \A w \in Workers : Len(batch[w]) = 1

\* C3: while a request is processed accepted + rejected is the number of
\* events looked at, which is N in the response; errors has one entry per
\* rejection, with distinct indexes in [0, N).
ResponseArithmetic ==
    \A h \in Handlers :
        hpc[h] \in {"processing", "responded"} =>
            LET r == resp[h] IN
            /\ r.accepted + r.rejected = hi[h]
            /\ hpc[h] = "responded" => r.accepted + r.rejected = hN[h]
            /\ Len(r.errors) = r.rejected
            /\ \A j \in DOMAIN r.errors : r.errors[j].index \in 0..(hN[h] - 1)
            /\ \A j, k \in DOMAIN r.errors :
                  r.errors[j].index = r.errors[k].index => j = k

\* C3 witness: a completed response with an acceptance and a rejection
ResponseArithmeticWitness ==
    \E h \in Handlers :
        /\ hpc[h] = "responded"
        /\ hN[h] = 2
        /\ resp[h].accepted = 1
        /\ resp[h].rejected = 1
        /\ resp[h].status = 207

\* the step offers the event of handler h to the channel: the event got
\* through conversion and validation
Offers(h) ==
    /\ hpc[h] = "processing"
    /\ hi'[h] = hi[h] + 1
    /\ \/ Len(resp'[h].errors) = Len(resp[h].errors)
       \/ resp'[h].errors[Len(resp'[h].errors)].error = "queue_full"

\* C4: an offer is decided in the step that makes it: with room in the
\* channel the envelope is appended and counted as accepted, with a full
\* channel the event is rejected with a queue-full error at its index and
\* the channel is unchanged; the channel never holds more than QueueCap.
OfferNeverBlocks ==
    [][\A h \in Handlers :
          Offers(h) =>
             /\ Len(envelopeChan') <= QueueCap
             /\ IF Len(envelopeChan) < QueueCap
                THEN /\ Len(envelopeChan') = Len(envelopeChan) + 1
                     /\ resp'[h].accepted = resp[h].accepted + 1
                     /\ resp'[h].errors = resp[h].errors
                ELSE /\ envelopeChan' = envelopeChan
                     /\ resp'[h].rejected = resp[h].rejected + 1
                     /\ resp'[h].errors =
                           Append(resp[h].errors,
                                  [index |-> hi[h], error |-> "queue_full"])]_vars

\* C5: every envelope of a worker's PublishBatch or Publish call that
\* returned nil has a record at the broker with its partition key as the
\* key and its serialization as the value.
AtLeastOnce ==
    \A e \in okEnvs :
        \E k \in DOMAIN broker :
            broker[k].key = e.partitionKey /\ broker[k].value = Marshal(e)

\* C6: the channel is closed only once Shutdown has returned, Pool.ctx is
\* cancelled only once the channel is closed, and the producer is closed
\* only once the pool was stopped and every worker has exited or the 15 s
\* deadline has elapsed.
ShutdownOrder ==
    /\ chanClosed => httpState = "stopped"
    /\ poolCtxDone => chanClosed
    /\ closed => (poolCtxDone /\ (AllStopped \/ deadlineExpired))

\* C6 witness: the whole sequence ran and the workers beat the deadline
ShutdownOrderWitness ==
    /\ closed
    /\ chanClosed
    /\ httpState = "stopped"
    /\ AllStopped
    /\ ~deadlineExpired

\* C7: once the context of Run is cancelled Run eventually returns nil,
\* with the HTTP server stopped, every worker exited, the producer closed
\* and the server and stats goroutines ended.
RunTerminates ==
    ctxDone ~> (/\ runResult = "nil"
                /\ httpState = "stopped"
                /\ AllStopped
                /\ closed
                /\ srvDone
                /\ statsDone)

\* C7 witness: Run returned nil after a cancel
RunTerminatesWitness ==
    /\ ctxDone
    /\ cpc = "done"
    /\ runResult = "nil"
    /\ AllStopped
    /\ closed

\* C8: every envelope received from the channel is in the batch of a
\* worker that still runs or was passed to PublishBatch or Publish; so
\* when every worker has exited, and Stop returns, all were passed on.
StopFlushes ==
    /\ \A e \in Range(taken) :
          \/ e \in handed
          \/ \E w \in Workers : wpc[w] # "stopped" /\ e \in Range(batch[w])
    /\ AllStopped => Range(taken) \subseteq handed

\* C8 witness: Stop cancelled the pool while envelopes were still in the
\* channel, a worker holding fewer than BatchSize envelopes took the
\* ctx.Done case, flushed and exited
StopFlushesWitness ==
    /\ poolCtxDone
    /\ envelopeChan # <<>>
    /\ \E w \in Workers :
          /\ wpc[w] = "stopped"
          /\ wcont[w] = "exit"
          /\ Range(taken) \subseteq handed
          /\ taken # <<>>

\* C9: a call makes at most MaxRetries + 1 writes; a write that succeeds
\* is the only one that does and ends the call with ok; the call fails
\* with the wrapped error only after MaxRetries + 1 writes that all
\* failed; a wait precedes every retry, and the wait before retry k is
\* RetryBackoff * 2^(k-1).
RetryBound ==
    \A c \in Clients :
        LET k == call[c] IN
        /\ k.writes <= MaxRetries + 1
        /\ k.wrote <= 1
        /\ k.wrote = 1 => (k.pc = "done" /\ k.result = "ok")
        /\ (k.pc = "done" /\ k.result = "failed") =>
              (k.writes = MaxRetries + 1 /\ k.wrote = 0)
        /\ k.pc = "write" => (k.writes = k.attempt /\ Len(k.waits) = k.attempt)
        /\ Len(k.waits) <= MaxRetries
        /\ \A j \in DOMAIN k.waits : k.waits[j] = RetryBackoff * Pow2(j - 1)

\* C9 witness: a call whose context stayed live failed after every retry
RetryBoundWitness ==
    \E c \in Clients :
        /\ call[c].pc = "done"
        /\ call[c].result = "failed"
        /\ ~call[c].ctx
        /\ call[c].writes = MaxRetries + 1
        /\ Len(call[c].waits) = MaxRetries

\* C10: a write that fails with a context error ends the call with that
\* error; a call whose context is done while it waits in backoff, or while
\* it is parked for a handle, ends with the context error in its next
\* step, without another write.
CancelStops ==
    [][\A c \in Clients :
          /\ (call[c].pc = "write" /\ call'[c].writes = call[c].writes + 1
                /\ call'[c].lastErr = "ctxerr")
                => (call'[c].pc = "done" /\ call'[c].result = "ctxerr")
          /\ (call[c].pc \in {"backoff", "parked"} /\ call[c].ctx
                /\ call'[c] # call[c])
                => /\ call'[c].pc = "done"
                   /\ call'[c].result = "ctxerr"
                   /\ call'[c].writes = call[c].writes
                   /\ broker' = broker]_vars

\* C10 witness: a call cancelled in backoff after a failed write has ended
\* with the context error, and the other was cancelled while parked
CancelStopsWitness ==
    /\ \E c \in Clients :
          /\ call[c].pc = "done"
          /\ call[c].result = "ctxerr"
          /\ call[c].via = "backoff"
          /\ call[c].lastErr = "err"
    /\ \E c \in Clients :
          /\ call[c].pc = "done"
          /\ call[c].result = "ctxerr"
          /\ call[c].via = "parked"
          /\ call[c].writes = 0

\* C11: no writer is closed more than once however often Close is called,
\* and a Publish, PublishBatch or HealthCheck call that started on a closed
\* producer ends with ErrProducerClosed, having borrowed no writer and
\* written nothing.
CloseIdempotent ==
    /\ \A k \in WriterIds : closeCount[k] <= 1
    /\ closed => \A k \in Writers : closeCount[k] = 1
    /\ \A c \in Clients :
          call[c].afterClose =>
             /\ call[c].pc \in {"start", "done"}
             /\ call[c].writer = 0
             /\ call[c].writes = 0
             /\ call[c].wrote = 0
             /\ call[c].pc = "done" =>
                   (call[c].result = "closed" /\ call[c].via = "start")

\* C11 witness: Close was called twice, and a HealthCheck and a publish
\* call that started afterwards have both returned
CloseIdempotentWitness ==
    /\ closeCalls = 2
    /\ \E c, d \in Clients :
          /\ call[c].afterClose /\ call[c].pc = "done" /\ call[c].op = "health"
          /\ call[d].afterClose /\ call[d].pc = "done" /\ call[d].op = "batch"

\* the calls that hold writer k
Holders(k) == {c \in Clients : call[c].writer = k}

\* C12: every writer is in the pool exactly once or held by exactly one
\* call, never both; a call holds a writer exactly while it is in its
\* retry loop or in HealthCheck's use of it; the writers in the pool and
\* the writers held add up to the pool size.
HandleConservation ==
    /\ \A k \in 1..ClientPoolSize :
          Count(k, pool) + Cardinality(Holders(k)) = 1
    /\ \A c \in Clients :
          (call[c].writer # 0) <=> (call[c].pc \in {"write", "backoff", "stats"})
    /\ Len(pool) + Cardinality({c \in Clients : call[c].writer # 0})
          = ClientPoolSize

\* C12 witness: one call has failed after its retries and one has
\* succeeded, and the pool is whole again
HandleConservationWitness ==
    /\ Len(pool) = ClientPoolSize
    /\ \E c, d \in Clients :
          /\ call[c].pc = "done" /\ call[c].result = "failed"
          /\ call[d].pc = "done" /\ call[d].result = "ok" /\ call[d].wrote = 1

\* C13: a worker about to call PublishBatch holds between 1 and BatchSize
\* envelopes; what a worker buffers was received from the channel and not
\* yet passed to the producer; no envelope is in a buffer twice or in the
\* buffers of two workers.
BatchBounds ==
    /\ \A w \in Workers :
          /\ Len(batch[w]) <= BatchSize
          /\ wpc[w] = "flush" => Len(batch[w]) >= 1
          /\ wpc[w] = "select" => Len(batch[w]) < BatchSize
          /\ wpc[w] \in {"select", "flush"} =>
                /\ Range(batch[w]) \subseteq Range(taken)
                /\ Range(batch[w]) \cap handed = {}
          /\ \A e \in Range(batch[w]) : Count(e, batch[w]) = 1
    /\ \A w, v \in Workers :
          w # v => Range(batch[w]) \cap Range(batch[v]) = {}

\* C13 witness: a worker is about to call PublishBatch with a full batch
BatchBoundsWitness ==
    \E w \in Workers :
        /\ wpc[w] = "flush"
        /\ Len(batch[w]) = BatchSize
        /\ Range(batch[w]) \subseteq Range(taken)

\* C14: a worker waiting in its select never holds a full buffer: the
\* receive that brings the buffer to BatchSize envelopes goes straight to the
\* flush, without a timer tick in between; that flush is one PublishBatch
\* call carrying the BatchSize envelopes, and when the worker is back in its
\* loop the buffer is empty and the timer restarted.
FullBatchFlushedAtOnce ==
    [][\A w \in Workers :
         /\ (wpc[w] = "select" => Len(batch[w]) < BatchSize)
         /\ (wpc[w] = "select" /\ Len(batch'[w]) = BatchSize
               => wpc'[w] = "flush" /\ wcont'[w] = "loop")
         /\ ((wpc[w] = "flush" /\ wpc'[w] # "flush" /\
              wcont[w] = "loop" /\ Len(batch[w]) = BatchSize)
               => /\ lastFlush'[w] = BatchSize
                  /\ Range(batch[w]) \subseteq handed'
                  /\ (wpc'[w] = "select"
                        => batch'[w] = <<>> /\ timerArmed'[w]))
         /\ (wpc[w] = "indiv" /\ wcont[w] = "loop" /\ wpc'[w] = "select"
               => batch'[w] = <<>> /\ timerArmed'[w])]_vars

\* a worker is back in its loop after a flush of a full buffer
FullBatchFlushedAtOnceWitness ==
    \E w \in Workers :
        /\ lastFlush[w] = BatchSize
        /\ wpc[w] = "select"
        /\ batch[w] = <<>>
        /\ timerArmed[w]
        /\ Len(taken) = BatchSize

\* C15: a worker waiting in its select has its timer running; the tick
\* that finds 1..BatchSize-1 envelopes in the buffer starts a flush, that
\* flush is one PublishBatch call with exactly those envelopes, and the
\* worker comes back to its loop with an empty buffer and the timer
\* restarted; hence every envelope a worker dequeued is eventually passed to
\* the producer, also when no other envelope arrives and nothing stops the
\* pool.
TimerFlushes ==
    /\ [](\A w \in Workers : wpc[w] = "select" => timerArmed[w])
    /\ [][\A w \in Workers :
           /\ ((wpc[w] = "select" /\ timerArmed[w] /\ ~timerArmed'[w])
                 => /\ Len(batch[w]) \in 1..(BatchSize - 1)
                    /\ batch'[w] = batch[w]
                    /\ wpc'[w] = "flush" /\ wcont'[w] = "loop")
           /\ ((wpc[w] = "flush" /\ wpc'[w] # "flush" /\ ~timerArmed[w])
                 => /\ lastFlush'[w] = Len(batch[w])
                    /\ Range(batch[w]) \subseteq handed'
                    /\ handed' \ handed \subseteq Range(batch[w])
                    /\ (wpc'[w] = "select"
                          => batch'[w] = <<>> /\ timerArmed'[w]))]_vars
    /\ \A k \in 1..MaxTotalEvents :
          (Len(taken) >= k) ~> (Len(taken) >= k /\ taken[k] \in handed)

\* a worker is back in its loop after the timer flushed a buffer that was
\* not full, and the pool was never stopped
TimerFlushesWitness ==
    \E w \in Workers :
        /\ lastFlush[w] \in 1..(BatchSize - 1)
        /\ wpc[w] = "select"
        /\ batch[w] = <<>>
        /\ timerArmed[w]
        /\ ~poolCtxDone
        /\ ~chanClosed
        /\ Range(taken) \subseteq handed

\* every worker is between two flushes
Flushed == \A w \in Workers : batch[w] = <<>> /\ wpc[w] \notin {"flush", "indiv"}

\* C16: in front of a broker that fails every write, once the workers have
\* flushed what they dequeued, failed is the number of dequeued envelopes,
\* processed is 0, the broker holds no record and every envelope was carried
\* by MaxRetries + 1 write attempts.
FailingBrokerCounts ==
    Flushed =>
        /\ failed = Len(taken)
        /\ processed = 0
        /\ broker = <<>>
        /\ \A e \in Range(taken) :
              e \in DOMAIN attempts /\ attempts[e] = MaxRetries + 1

\* the envelopes of worker w that its fallback has already republished, and
\* those still to come
Retried(w) ==
    IF wpc[w] = "indiv" THEN {batch[w][k] : k \in 1..(widx[w] - 1)} ELSE {}
ToRetry(w) ==
    IF wpc[w] = "indiv" THEN {batch[w][k] : k \in widx[w]..Len(batch[w])} ELSE {}

\* the envelopes the counters have counted: those of finished flushes and
\* those of the fallbacks under way
Counted ==
    (Range(taken) \ UNION {Range(batch[w]) : w \in Workers})
        \cup UNION {Retried(w) \cup ToRetry(w) : w \in Workers}

\* C17: a PublishBatch that fails adds the n envelopes of the flush to
\* failed; the fallback then republishes every envelope of the batch, one
\* per step and also after a failure, and moves each envelope whose Publish
\* succeeds from failed to processed. So a flush with k successes leaves
\* processed k and failed n - k higher, and at any time every counted
\* envelope is in exactly one of the two counters.
FallbackCounts ==
    /\ [](/\ processed = Cardinality(Counted \cap okEnvs)
          /\ failed = Cardinality(Counted \ okEnvs)
          /\ \A w \in Workers : ToRetry(w) \cap okEnvs = {})
    /\ [][\A w \in Workers :
           /\ ((wpc[w] = "flush" /\ wpc'[w] = "indiv")
                 => /\ failed' = failed + Len(batch[w])
                    /\ processed' = processed
                    /\ batch'[w] = batch[w]
                    /\ widx'[w] = 1)
           /\ ((wpc[w] = "indiv" /\ <<wpc[w], widx[w]>>' # <<wpc[w], widx[w]>>)
                 => /\ LET e == batch[w][widx[w]] IN
                       \/ /\ e \in okEnvs'
                          /\ processed' = processed + 1
                          /\ failed' = failed - 1
                       \/ /\ e \notin okEnvs'
                          /\ processed' = processed
                          /\ failed' = failed
                    /\ IF widx[w] < Len(batch[w])
                       THEN /\ wpc'[w] = "indiv"
                            /\ widx'[w] = widx[w] + 1
                            /\ batch'[w] = batch[w]
                       ELSE wpc'[w] # "indiv")]_vars

\* a flush of BatchSize envelopes failed as a batch and its fallback
\* republished one of them and failed on another
FallbackCountsWitness ==
    /\ Flushed
    /\ BatchSize > 1
    /\ \E w \in Workers : lastFlush[w] = BatchSize
    /\ Len(taken) = BatchSize
    /\ processed = 1
    /\ failed = BatchSize - 1

\* C18: in front of a broker that takes every write and as long as the
\* pool is not stopped, failed stays 0, no envelope is passed to the
\* producer twice, processed counts the envelopes passed to the producer,
\* which are distinct envelopes sent to the channel, and processed comes to
\* equal the number of envelopes sent to the channel: by then every one of
\* them was passed to the producer exactly once.
AllProcessed ==
    /\ [](~poolCtxDone =>
            /\ failed = 0
            /\ \A e \in DOMAIN calls : calls[e] = 1
            /\ DOMAIN calls \subseteq Range(accepted)
            /\ Cardinality(Range(accepted)) = Len(accepted)
            /\ processed = Cardinality(DOMAIN calls))
    /\ <>[](poolCtxDone \/ (/\ processed = Len(accepted)
                             /\ DOMAIN calls = Range(accepted)))

\* every event the clients could send was accepted and processed by the
\* running pool
AllProcessedWitness ==
    /\ ~poolCtxDone
    /\ Len(accepted) = MaxTotalEvents
    /\ processed = MaxTotalEvents
    /\ failed = 0
    /\ \A k \in 1..MaxTotalEvents : calls[accepted[k]] = 1

\* C19: no step lowers a counter: the pool's processed and failed and the
\* producer's messagesSent and messagesFailed.
CountersMonotonic ==
    [][/\ processed' >= processed
       /\ failed' >= failed
       /\ messagesSent' >= messagesSent
       /\ messagesFailed' >= messagesFailed]_vars

\* the tenant id and the partition key inside the serialization of a record
TenantOf(r) == r.value[2]
KeyOf(r) == r.value[5]

\* C20: every envelope in the channel or in the buffer of a worker has its
\* event's tenant id as partition key, and every record at the broker
\* carries an envelope with that property and has that tenant id as key.
KeyIsTenant ==
    /\ \A k \in DOMAIN envelopeChan :
          envelopeChan[k].partitionKey = envelopeChan[k].tenant
    /\ \A w \in Workers : \A k \in DOMAIN batch[w] :
          batch[w][k].partitionKey = batch[w][k].tenant
    /\ \A k \in DOMAIN broker :
          /\ KeyOf(broker[k]) = TenantOf(broker[k])
          /\ broker[k].key = TenantOf(broker[k])

\* envelopes of two tenants went through one batch to the broker
KeyIsTenantWitness ==
    /\ \E j, k \in DOMAIN broker : broker[j].key # broker[k].key
    /\ \E w \in Workers : lastFlush[w] = BatchSize

\* the rules of Validate in their order, and what violates each
RuleOrder ==
    <<"EmptyId", "EmptyTenantId", "ZeroTimestamp", "FutureTimestamp",
      "InvalidSeverity", "EmptySource", "EmptyMessage", "MessageTooLong",
      "TooManyMetadata">>
Violates(kind, e, now) ==
    CASE kind = "EmptyId" -> e.id = <<>>
      [] kind = "EmptyTenantId" -> e.tenantID = <<>>
      [] kind = "ZeroTimestamp" -> e.timestamp = ZeroTime
      [] kind = "FutureTimestamp" -> e.timestamp - now > 60
      [] kind = "InvalidSeverity" -> ~IsValid(e.severity)
      [] kind = "EmptySource" -> e.source = <<>>
      [] kind = "EmptyMessage" -> e.message = <<>>
      [] kind = "MessageTooLong" -> StrLen(e.message) > 65536
      [] kind = "TooManyMetadata" -> MapLen(e.metadata) > 50
Violated(e, now) == {k \in DOMAIN RuleOrder : Violates(RuleOrder[k], e, now)}

\* C21: what Validate returned for an event is the kind of the first rule,
\* in the fixed order, that the event violates at the clock reading of the
\* call, and nil exactly when the event violates no rule.
ValidateOrder ==
    \A r \in Runs :
        verdict[r] \notin {"none", "idle"} =>
            LET bad == Violated(checked[r].e, checked[r].at) IN
            /\ (verdict[r] = "nil") <=> (bad = {})
            /\ bad # {} =>
                  verdict[r] = RuleOrder[CHOOSE k \in bad : \A j \in bad : k <= j]

\* one call accepted the normalized event, the other reported only the
\* severity of the raw event, which also has a message over the limit
ValidateOrderWitness ==
    \E r1, r2 \in Runs :
        /\ verdict[r1] = "nil"
        /\ verdict[r2] = "InvalidSeverity"
        /\ Cardinality(Violated(checked[r2].e, checked[r2].at)) > 1
        /\ StrLen(checked[r2].e.message) > 65536

\* C22: Normalize leaves an event it has already normalized as it is,
\* whichever map the first call built: every further call of a run, with
\* every map it can build, ends with the event it started with.
NormalizeIdempotent ==
    [][\A r \in Runs :
         (normed[r] >= 1 /\ normed'[r] # normed[r]) => copy'[r] = copy[r]]_vars

\* a run has normalized twice an event with a metadata map that the first
\* call changed
NormalizeIdempotentWitness ==
    \E r1, r2 \in Runs :
        /\ normed[r1] = 2
        /\ normed[r2] = 0
        /\ ~copy[r1].metadata.nil
        /\ copy[r1].metadata # copy[r2].metadata
        /\ copy[r1].source # copy[r2].source

\* the run has the result of a Validate call
Validated(r) == verdict[r] \notin {"none", "idle"}

\* the event of the call is later than one minute after the clock it read
Ahead(r) == checked[r].e.timestamp > checked[r].at + 60

\* C23 as stated: two Validate calls on equal events give the same outcome,
\* whenever and wherever they are made.
ValidateSameAlways ==
    \A r1, r2 \in Runs :
        (Validated(r1) /\ Validated(r2) /\ checked[r1].e = checked[r2].e)
            => verdict[r1] = verdict[r2]

\* C23 amended: the outcome of Validate depends on the moment of the call
\* only through the FutureTimestamp rule. A call reports FutureTimestamp
\* only for a timestamp more than 60 s after the clock it read; two calls on
\* equal events whose clocks are on the same side of timestamp - 60 s give
\* the same outcome; two calls that differ are one that reports
\* FutureTimestamp and one whose clock has reached timestamp - 60 s.
ValidateSameButFuture ==
    \A r1, r2 \in Runs :
        (Validated(r1) /\ Validated(r2) /\ checked[r1].e = checked[r2].e)
            => /\ verdict[r1] = "FutureTimestamp" => Ahead(r1)
               /\ (Ahead(r1) <=> Ahead(r2)) => verdict[r1] = verdict[r2]
               /\ (verdict[r1] # verdict[r2] /\ Ahead(r1))
                     => verdict[r1] = "FutureTimestamp" /\ ~Ahead(r2)

\* two calls on equal events, at two clock readings, one reporting
\* FutureTimestamp and one accepting the event
ValidateSameButFutureWitness ==
    \E r1, r2 \in Runs :
        /\ checked[r1].e = checked[r2].e
        /\ checked[r1].at # checked[r2].at
        /\ verdict[r1] = "FutureTimestamp"
        /\ verdict[r2] = "nil"

\* C24: two runs that got equal events and called Normalize once each hold
\* equal events: the same fields and the same metadata map.
NormalizeSame ==
    \A r1, r2 \in Runs :
        (normed[r1] = 1 /\ normed[r2] = 1) => copy[r1] = copy[r2]

\* C25: a request whose N >= 1 events were all processed is answered 400
\* when nothing was accepted and something rejected, 207 when some events
\* were accepted and some rejected, 200 when nothing was rejected.
StatusByCounters ==
    \A h \in Handlers :
        hpc[h] = "responded" =>
            LET r == resp[h] IN
            /\ hN[h] >= 1
            /\ (r.accepted = 0 /\ r.rejected > 0) => r.status = 400
            /\ (r.accepted > 0 /\ r.rejected > 0) => r.status = 207
            /\ r.rejected = 0 => r.status = 200
            /\ r.status \in {200, 207, 400}

\* one request was answered 200 for its accepted event and another 400 for
\* its rejected event
StatusByCountersWitness ==
    \E h, g \in Handlers :
        /\ hpc[h] = "responded"
        /\ hpc[g] = "responded"
        /\ resp[h].status = 200
        /\ resp[h].accepted = 1
        /\ resp[g].status = 400
        /\ resp[g].rejected = 1

\* the request's X-API-Key header is missing or is not the configured secret
BadKey(k) == k = NoKey \/ k # ExpectedKey

\* the state of a request that never reached the ingest handler
Untouched(h) ==
    /\ hN[h] = 0
    /\ hi[h] = 0
    /\ hBatch[h] = 0
    /\ resp[h] = [EmptyResponse EXCEPT !.status = 401]
    /\ \A k \in 1..Len(accepted) : accepted[k].batchID # hBatch[h] \/ hBatch[h] = 0

PanicContained ==
    /\ [](/\ panicsRecovered = Cardinality(panics)
          /\ \A w \in panics : wpc[w] = "stopped")
    /\ [][\A w \in Workers :
            (w \in panics' /\ w \notin panics) =>
                /\ panicsRecovered' = panicsRecovered + 1
                /\ \A v \in Workers \ {w} :
                      /\ wpc'[v] = wpc[v]
                      /\ batch'[v] = batch[v]
                      /\ timerArmed'[v] = timerArmed[v]
                /\ UNCHANGED <<envelopeChan, chanClosed, poolCtxDone, closed>>]_vars

\* a worker has panicked on its batch, the other worker has since then
\* received and published another envelope, and Pool.Stop has returned
PanicContainedWitness ==
    \E w \in panics :
        /\ panicsRecovered = 1
        /\ Len(taken) = 2
        /\ batch[w] = <<taken[1]>>
        /\ taken[2] \in okEnvs
        /\ taken[1] \notin okEnvs
        /\ poolCtxDone
        /\ AllStopped
        /\ cpc = "done"

\* C28: once the coordinator has closed the channel an offer of a request
\* still in flight is rejected in the response of the request: the step
\* leaves the channel as it is, counts the event as rejected, and the
\* handler goes on to its normal response.
ClosedQueueRejects ==
    [][\A h \in Handlers :
          (chanClosed /\ Offers(h)) =>
              /\ envelopeChan' = envelopeChan
              /\ resp'[h].rejected = resp[h].rejected + 1
              /\ hpc'[h] \in {"processing", "responded"}
              /\ resp'[h].status \in {0, 200, 207, 400}]_vars

\* C29: with the channel closed and Pool.ctx not cancelled a worker leaves
\* its loop only on a closed and empty channel, and the workers go on
\* receiving: unless the cancel comes, every envelope that was in the
\* channel at the close is received and passed to the publisher.
DrainAfterClose ==
    /\ [][\A w \in Workers :
            (/\ wpc[w] = "select"
             /\ ~poolCtxDone
             /\ \/ wpc'[w] = "stopped"
                \/ wpc'[w] = "flush" /\ wcont'[w] = "exit")
            => (chanClosed /\ envelopeChan = <<>>)]_vars
    /\ chanClosed ~> (\/ poolCtxDone
                      \/ envelopeChan = <<>> /\ queueAtClose \subseteq handed)

\* the envelope in the channel at the close was received and passed on
\* before any cancel, and a worker has seen the close and left
DrainAfterCloseWitness ==
    /\ chanClosed
    /\ ~poolCtxDone
    /\ queueAtClose # {}
    /\ queueAtClose \subseteq handed
    /\ \E w \in Workers : wpc[w] = "stopped"

\* a worker or the producer is in service
Running ==
    \/ \E w \in Workers : wpc[w] \notin {"new", "stopped"}
    \/ pool # <<>> /\ ~closed

\* C30: when the producer cannot be created or the HTTP server cannot bind
\* its port, Run returns an error and neither the workers nor the producer
\* are left in service.
StartupFailureStops ==
    (cpc = "failed" \/ httpState = "bind_failed")
        ~> (runResult = "error" /\ ~Running)

\* C31: once the 15 s deadline of the drain has elapsed with a worker still
\* running, shutdown goes on without the workers: the producer can be
\* closed, and Run can return, whatever the workers do.
DeadlineProceeds ==
    deadlineExpired =>
        /\ cpc = "close_producer" => ENABLED CloseProducer
        /\ cpc = "deferred_stop" => ENABLED RunReturn

\* the envelopes of request h that were accepted, in the order of their sends
AcceptedOf(h) ==
    LET Mine(e) == e.batchID = hBatch[h] IN SelectSeq(accepted, Mine)

\* C32: a request is processed in input order: its errors have strictly
\* increasing indexes, its accepted envelopes carry the batch id of the
\* request and the position of their event as batch index, they entered the
\* channel in input order, and every event looked at is either in the
\* errors or accepted.
InputOrder ==
    /\ \A k \in DOMAIN accepted :
          \E h \in Handlers : hpc[h] # "idle" /\ hBatch[h] = accepted[k].batchID
    /\ \A h \in Handlers :
          hpc[h] \in {"processing", "responded"} =>
              LET errs == resp[h].errors
                  mine == AcceptedOf(h)
                  errIdx == {errs[j].index : j \in DOMAIN errs}
                  accIdx == {mine[j].batchIndex : j \in DOMAIN mine}
              IN
              /\ \A j, k \in DOMAIN errs : j < k => errs[j].index < errs[k].index
              /\ \A j, k \in DOMAIN mine :
                    j < k => mine[j].batchIndex < mine[k].batchIndex
              /\ errIdx \cap accIdx = {}
              /\ errIdx \cup accIdx = 0..(hi[h] - 1)

\* a request of two events was answered with the first event in the errors
\* and the second accepted under batch index 1
InputOrderWitness ==
    \E h \in Handlers :
        /\ hpc[h] = "responded"
        /\ Len(resp[h].errors) = 1
        /\ resp[h].errors[1].index = 0
        /\ Len(AcceptedOf(h)) = 1
        /\ AcceptedOf(h)[1].batchIndex = 1

\* q is p with nothing or with envelopes added at its end
Extends(q, p) == Len(q) >= Len(p) /\ SubSeq(q, 1, Len(p)) = p

\* C33: a request takes nothing back: a step of processEvents, whatever it
\* does with its event, leaves the envelopes already in the channel where
\* they are, every accepted envelope is in the channel until a worker
\* receives it, and the accepted count of the response is the number of
\* envelopes the request put into the channel.
NotRetracted ==
    /\ [](/\ Len(accepted) = Len(envelopeChan) + Len(taken)
          /\ accepted = taken \o envelopeChan
          /\ \A h \in Handlers :
                hpc[h] \in {"processing", "responded"} =>
                    resp[h].accepted = Len(AcceptedOf(h)))
    /\ [][\A h \in Handlers :
            (hpc[h] = "processing" /\ hi'[h] # hi[h]) =>
                /\ Extends(envelopeChan', envelopeChan)
                /\ Extends(accepted', accepted)
                /\ resp'[h].accepted >= resp[h].accepted]_vars

\* the first event of a request is in the channel, its second event was
\* rejected for the full channel, and the response counts one accepted
NotRetractedWitness ==
    \E h \in Handlers :
        /\ hpc[h] = "responded"
        /\ resp[h].accepted = 1
        /\ Len(resp[h].errors) = 1
        /\ resp[h].errors[1] = [index |-> 1, error |-> "queue_full"]
        /\ Len(AcceptedOf(h)) = 1
        /\ envelopeChan = AcceptedOf(h)

\* the HealthCheck calls that have returned
HealthDone == {c \in Clients : call[c].op = "health" /\ call[c].pc = "done"}

BodyComplete ==
    \A h \in Handlers :
        hpc[h] = "responded" =>
            {"accepted", "rejected", "errors", "batch_id"} \subseteq DOMAIN Body(resp[h])

\* C36: after a signal the process does not end before Run has gone through
\* its shutdown and returned: main returns after Run.
ExitAfterShutdown ==
    exited =>
        /\ runResult # "none"
        /\ runResult = "nil" => (httpState = "stopped" /\ chanClosed /\ closed)

\* the Publish and PublishBatch calls that hold writer k
Publishing(k) == {c \in Holders(k) : call[c].op \in {"single", "batch"}}

\* C37: Close closes a writer only when no Publish or PublishBatch call
\* holds it: the writer of a call that is writing or waiting to retry is
\* not closed under it.
CloseSparesBorrowed ==
    [][\A k \in WriterIds :
          (k \in writersClosed' /\ k \notin writersClosed) => Publishing(k) = {}]_vars

\* C38: failed never wraps: with the workers failing batches and falling
\* back concurrently it is at most the number of envelopes passed to the
\* publisher so far.
FailedNeverWraps == failed <= Cardinality(handed)

\* two envelopes went through a failed PublishBatch and were then published
\* one by one, and failed is back at zero
FailedNeverWrapsWitness ==
    /\ failed = 0
    /\ processed = 2
    /\ Cardinality({e \in okEnvs : calls[e] >= 2}) = 2

\* the place of the envelope serialized as v in the order of acceptance
AcceptedAt(v) == CHOOSE k \in DOMAIN accepted : Marshal(accepted[k]) = v

Identified == {h \in Handlers : hpc[h] \in {"processing", "responded", "panicked"}}

\* C40: no two requests have the same batch id, concurrent requests
\* included: every request takes the value of one increment of the counter,
\* which is above every batch id given before.
BatchIdsDistinct ==
    /\ [](/\ \A h, g \in Identified : h # g => hBatch[h] # hBatch[g]
          /\ \A h \in Identified : hBatch[h] \in 1..batchCounter)
    /\ [][\A h \in Handlers :
            (h \in Identified' /\ h \notin Identified) =>
                /\ batchCounter' = batchCounter + 1
                /\ hBatch'[h] = batchCounter'
                /\ \A g \in Identified : hBatch[g] < hBatch'[h]]_vars

\* two requests are in processEvents at the same time with the batch ids
\* of two increments
BatchIdsDistinctWitness ==
    /\ \A h \in Handlers : hpc[h] = "processing" /\ hi[h] = 0
    /\ {hBatch[h] : h \in Handlers} = {1, 2}

====
